---- MODULE Spec2Model ----
(***************************************************************************)
(* Model of the chatbot platform backend: the project, chat and file       *)
(* controllers, the Gemini service and the error middleware.               *)
(*                                                                         *)
(* Every request handler is an async function; each action below is one    *)
(* run-to-completion segment of a handler, from one await to the next.     *)
(* Strings of the program are sequences of pieces: the single characters   *)
(* of Alphabet, and literal pieces for the fixed texts of the code.        *)
(***************************************************************************)
EXTENDS Integers, Sequences, FiniteSets, TLC

\* ------------------------------------------------------------------ bounds
MaxLen == 2
MaxProjects == 2
MaxMessages == 3
MaxFiles == 1
MaxChatTurns == 22
MaxUsers == 3

\* ------------------------------------------------------- program constants
ContextWindow == 20
DefaultLimit == 50

Users == {"u1", "u2"}
Reqs == {"r1", "r2"}
Alphabet == {" ", "h"}

\* JavaScript undefined and null, as values no text is equal to
Undefined == <<"undefined">>
Null == <<"null">>

Min(a, b) == IF a < b THEN a ELSE b

RECURSIVE SeqsUpTo(_)
SeqsUpTo(n) ==
    IF n = 0 THEN {<<>>}
    ELSE LET S == SeqsUpTo(n - 1)
         IN  S \cup {Append(s, c) : s \in {t \in S : Len(t) = n - 1}, c \in Alphabet}

Texts == SeqsUpTo(MaxLen)

\* ------------------------------------------------------------ string model
IsSpace(c) == c = " "

RECURSIVE TrimStart(_)
TrimStart(s) ==
    IF s = <<>> THEN s
    ELSE IF IsSpace(Head(s)) THEN TrimStart(Tail(s)) ELSE s

RECURSIVE TrimEnd(_)
TrimEnd(s) ==
    IF s = <<>> THEN s
    ELSE IF IsSpace(s[Len(s)]) THEN TrimEnd(SubSeq(s, 1, Len(s) - 1)) ELSE s

\* Trim that strips the start only
TrimStartOnly(s) == TrimStart(s)

\* String.prototype.trim
Trim(s) == TrimEnd(TrimStart(s))

\* String.prototype.includes, for a needle that is one piece
Includes(s, piece) == \E i \in 1..Len(s) : s[i] = piece

\* JavaScript truthiness of a string-or-undefined value
Truthy(v) == v # Undefined /\ v # Null /\ v # <<>>

\* IsBlank without the trim
IsBlankNoTrim(v) == ~Truthy(v)

\* the validation of sendMessage and createProject: !x || x.trim().length === 0
IsBlank(v) == ~Truthy(v) \/ Len(Trim(v)) = 0

\* Number.prototype.toString, in decimal
RECURSIVE NumStr(_)
NumStr(n) ==
    LET digits == <<"0", "1", "2", "3", "4", "5", "6", "7", "8", "9">>
    IN  IF n < 10 THEN <<digits[n + 1]>>
        ELSE NumStr(n \div 10) \o <<digits[(n % 10) + 1]>>

\* ------------------------------------------------------------------- state
VARIABLES
    projects,    \* table Project: set of rows
    messages,    \* table Message: rows in createdAt order
    files,       \* table File: rows in createdAt order
    disk,        \* stored names present in the uploads directory
    nextPid,     \* ids handed out so far, per table (uuid: never reused)
    nextMid,
    nextFid,
    apiKey,      \* process.env.GEMINI_API_KEY is set
    users,       \* table User: rows in creation order
    req,         \* the requests in flight, one per slot
    pre,         \* the tables as they were when the request of a slot arrived
    latest,      \* the slot of the request that arrived last
    okSends,     \* number of sendMessage requests answered 200 so far
    anyFailed    \* some sendMessage request failed after saving its user message

db == <<projects, messages, files, disk, nextPid, nextMid, nextFid>>
vars == <<projects, messages, files, disk, nextPid, nextMid, nextFid,
          apiKey, users, req, pre, latest, okSends, anyFailed>>

NoProject == [id |-> 0, userId |-> "", name |-> <<>>, description |-> Null,
              systemPrompt |-> <<>>]
NoMessage == [id |-> 0, role |-> "", content |-> <<>>, projectId |-> 0]
NoFile == [id |-> 0, filename |-> <<>>, storedName |-> 0, projectId |-> 0]
NoBody == [name |-> Undefined, description |-> Undefined, systemPrompt |-> Undefined,
           email |-> Undefined, password |-> Undefined]
NoLimit == [kind |-> "absent", n |-> 0]
NoData == [kind |-> "none"]
NoResp == [status |-> 0, success |-> FALSE, message |-> <<>>, data |-> NoData]
NoError == [message |-> <<>>, code |-> ""]
NoGen == [ok |-> FALSE, text |-> <<>>, error |-> NoError, called |-> FALSE,
          history |-> <<>>, prompt |-> <<>>]

IdleReq == [op |-> "none", pc |-> "idle", user |-> "", projectId |-> 0,
            fileId |-> 0, message |-> Undefined, body |-> NoBody,
            limit |-> NoLimit, file |-> NoFile, project |-> NoProject,
            existed |-> FALSE, after |-> "none", userMessage |-> NoMessage, history |-> <<>>,
            gen |-> NoGen, resp |-> NoResp,
            authHeader |-> Undefined, auth |-> "none", failedAt |-> "none",
            hashedPassword |-> <<>>]

Snapshot == [projects |-> projects, messages |-> messages, files |-> files,
             disk |-> disk]

\* FindOwnedProject without the userId condition
FindProjectById(id, uid) ==
    IF \E p \in projects : p.id = id
    THEN CHOOSE p \in projects : p.id = id
    ELSE NoProject

\* ------------------------------------------------------------ the database
\* prisma.project.findFirst({ where: { id, userId } })
FindOwnedProject(id, uid) ==
    IF \E p \in projects : p.id = id /\ p.userId = uid
    THEN CHOOSE p \in projects : p.id = id /\ p.userId = uid
    ELSE NoProject

ProjectExists(id) == \E p \in projects : p.id = id

MessagesOf(tbl, pid) == SelectSeq(tbl, LAMBDA m : m.projectId = pid)

\* findMany({ where: { projectId }, orderBy: { createdAt: 'asc' }, take })
\* a positive take keeps the first rows of the ordered result, a negative
\* take the last ones
FindManyMessages(pid, take) ==
    LET rows == MessagesOf(messages, pid)
        n == Len(rows)
    IN  IF take >= 0 THEN SubSeq(rows, 1, Min(take, n))
        ELSE SubSeq(rows, IF n + take < 0 THEN 1 ELSE n + take + 1, n)

\* NewMessage that stores the speaker tag of the model API for a reply
NewMessageModelTag(role, content, pid) ==
    [id |-> nextMid, role |-> IF role = "assistant" THEN "model" ELSE role,
     content |-> content, projectId |-> pid]

\* NewMessage with the role of the row hard-wired
NewMessageAsUser(role, content, pid) ==
    [id |-> nextMid, role |-> "user", content |-> content, projectId |-> pid]

\* prisma.message.create: the row gets a fresh id and createdAt = now()
NewMessage(role, content, pid) ==
    [id |-> nextMid, role |-> role, content |-> content, projectId |-> pid]

\* ---------------------------------------------------------- response forms
Json(status, success, message, data) ==
    [status |-> status, success |-> success, message |-> message, data |-> data]

ProjectNotFound ==
    Json(404, FALSE, <<"Project not found or you do not have access">>, NoData)

\* errorHandler without the cases for the Prisma error codes
errorHandlerNoCodes(err) == Json(500, FALSE, err.message, NoData)

\* errorHandler of the error middleware (NODE_ENV = development: the message
\* of the error is passed on)
errorHandler(err) ==
    IF err.code = "P2002"
    THEN Json(400, FALSE,
              <<"A record with this ",
                IF "target" \in DOMAIN err THEN err.target ELSE "field",
                " already exists.">>, NoData)
    ELSE IF err.code = "P2003"
    THEN Json(400, FALSE, <<"Referenced record does not exist.">>, NoData)
    ELSE IF err.code = "P2025"
    THEN Json(404, FALSE, <<"Record not found.">>, NoData)
    ELSE Json(500, FALSE, err.message, NoData)

ForeignKeyError == [message |-> <<"Foreign key constraint failed">>, code |-> "P2003"]
RecordNotFoundError == [message |-> <<"Record to delete does not exist.">>, code |-> "P2025"]

\* ------------------------------------------------------- the Gemini service
\* what the SDK call can do: reply with a text or throw
Replies == {<<"o", "k">>}
SdkErrors == {<<"API key not valid: ", "API_KEY", "_INVALID">>,
              <<"429 ", "quota", " exceeded">>,
              <<"blocked due to ", "safety">>,
              <<"fetch failed">>}
ModelOutcomes == [kind : {"reply"}, text : Replies, message : {<<>>}]
                 \cup [kind : {"error"}, text : {<<>>}, message : SdkErrors]

\* GeminiError that rethrows an unclassified error as it came
GeminiErrorRethrow(message) ==
    IF Includes(message, "API_KEY")
    THEN <<"GEMINI", ": Invalid API key. Please check your ", "GEMINI", "_",
           "API_KEY", ".">>
    ELSE IF Includes(message, "quota")
    THEN <<"GEMINI", ": API ", "quota", " exceeded. Please try again later.">>
    ELSE IF Includes(message, "safety")
    THEN <<"GEMINI", ": Response blocked due to ", "safety", " settings.">>
    ELSE message

\* the catch block of generateResponse
GeminiError(message) ==
    IF Includes(message, "API_KEY")
    THEN <<"GEMINI", ": Invalid API key. Please check your ", "GEMINI", "_",
           "API_KEY", ".">>
    ELSE IF Includes(message, "quota")
    THEN <<"GEMINI", ": API ", "quota", " exceeded. Please try again later.">>
    ELSE IF Includes(message, "safety")
    THEN <<"GEMINI", ": Response blocked due to ", "safety", " settings.">>
    ELSE <<"GEMINI", ": ">> \o message

\* formattedHistory without the slice(0, -1)
formattedHistoryWhole(conversationHistory) ==
    [i \in 1..Len(conversationHistory) |->
        [role |-> IF conversationHistory[i].role = "assistant" THEN "model" ELSE "user",
         text |-> conversationHistory[i].content]]

\* conversationHistory.slice(0, -1).map(msg => ({ role, parts: [{ text }] }))
formattedHistory(conversationHistory) ==
    [i \in 1..(Len(conversationHistory) - 1) |->
        [role |-> IF conversationHistory[i].role = "assistant" THEN "model" ELSE "user",
         text |-> conversationHistory[i].content]]

\* promptWithSystem without the user label
promptWithSystemNoLabel(systemPrompt, lastMessage) ==
    IF Truthy(systemPrompt)
    THEN <<"[System: ">> \o systemPrompt \o <<"]\n\n">> \o lastMessage.content
    ELSE lastMessage.content

promptWithSystem(systemPrompt, lastMessage) ==
    IF Truthy(systemPrompt)
    THEN <<"[System: ">> \o systemPrompt \o <<"]\n\nUser: ">> \o lastMessage.content
    ELSE lastMessage.content

generateResponse(systemPrompt, conversationHistory, outcome) ==
    IF ~apiKey
    THEN [NoGen EXCEPT !.error = [message |-> GeminiError(
              <<"GEMINI", "_", "API_KEY", " is not configured">>), code |-> ""]]
    ELSE IF conversationHistory = <<>>
    THEN \* lastMessage is undefined: reading its content throws a TypeError
         [NoGen EXCEPT !.error = [message |-> GeminiError(
              <<"Cannot read properties of undefined (reading 'content')">>),
              code |-> ""]]
    ELSE LET lastMessage == conversationHistory[Len(conversationHistory)]
             sent == [NoGen EXCEPT !.called = TRUE,
                         !.history = formattedHistory(conversationHistory),
                         !.prompt = promptWithSystem(systemPrompt, lastMessage)]
         IN  IF outcome.kind = "reply"
             THEN [sent EXCEPT !.ok = TRUE, !.text = outcome.text]
             ELSE [sent EXCEPT !.error = [message |-> GeminiError(outcome.message),
                                          code |-> ""]]

\* ------------------------------------------------------------- bookkeeping
NoSnapshot == [projects |-> {}, messages |-> <<>>, files |-> <<>>, disk |-> {}]

\* the request that was answered just before this one arrived, if its response
\* is still in its slot
AnsweredBefore(r) ==
    IF latest # r /\ latest \in Reqs /\ req[latest].pc = "done" THEN latest ELSE "none"

Arrive(r, op, u, pid) ==
    [IdleReq EXCEPT !.op = op, !.user = u, !.projectId = pid, !.pc = "findProject",
                    !.after = AnsweredBefore(r),
                    !.authHeader = req[r].authHeader, !.auth = req[r].auth]

\* the response has been sent: the slot is free for the next request
Complete(r) ==
    /\ req[r].pc = "done"
    /\ req' = [t \in Reqs |->
                  IF t = r THEN IdleReq
                  ELSE IF req[t].after = r THEN [req[t] EXCEPT !.after = "none"]
                  ELSE req[t]]
    /\ pre' = [pre EXCEPT ![r] = NoSnapshot]
    /\ UNCHANGED <<db, apiKey, users, latest, okSends, anyFailed>>

\* --------------------------------------------------------- auth middleware
\* the rows of table User, and a user whose row was deleted after a token
\* had been issued to them
UserTable == Users
DeletedUser == "u0"

\* authHeader.startsWith('Bearer ')
StartsWithBearer(authHeader) ==
    /\ authHeader # Undefined
    /\ Len(authHeader) >= 2
    /\ authHeader[1] = "Bearer" /\ authHeader[2] = " "

\* authHeader.split(' ')[1]: the text between the first and the second space
RECURSIVE UpToSpace(_)
UpToSpace(s) ==
    IF s = <<>> \/ IsSpace(Head(s)) THEN <<>>
    ELSE <<Head(s)>> \o UpToSpace(Tail(s))

RECURSIVE AfterSpace(_)
AfterSpace(s) ==
    IF s = <<>> THEN <<>>
    ELSE IF IsSpace(Head(s)) THEN Tail(s) ELSE AfterSpace(Tail(s))

SplitSecond(authHeader) == UpToSpace(AfterSpace(authHeader))

\* jwt.verify(token, process.env.JWT_SECRET): the payload, or the error thrown
Verify(token) ==
    IF token = <<"jwt-u1">> THEN [name |-> "", id |-> "u1"]
    ELSE IF token = <<"jwt-u2">> THEN [name |-> "", id |-> "u2"]
    ELSE IF token = <<"jwt-u0">> THEN [name |-> "", id |-> DeletedUser]
    ELSE IF token = <<"jwt-expired">> THEN [name |-> "TokenExpiredError", id |-> ""]
    ELSE [name |-> "JsonWebTokenError", id |-> ""]

Unauthorized(message) == Json(401, FALSE, message, NoData)

\* authMiddleware that trusts the payload without verifying the token
authMiddlewareNoVerify(r, authHeader) ==
    /\ req[r].pc = "idle" /\ req[r].auth = "none"
    /\ pre' = [pre EXCEPT ![r] = Snapshot]
    /\ latest' = r
    /\ LET token == SplitSecond(authHeader)
           rejected(message) == [IdleReq EXCEPT !.authHeader = authHeader,
                                    !.pc = "done", !.resp = Unauthorized(message)]
       IN  req' = [req EXCEPT ![r] =
               IF ~StartsWithBearer(authHeader)
               THEN rejected(<<"Access denied. No token provided.">>)
               ELSE IF token = <<>>
               THEN rejected(<<"Access denied. Invalid token format.">>)
               ELSE [IdleReq EXCEPT !.authHeader = authHeader, !.pc = "findUser",
                        !.user = IF Verify(token).id = "" THEN "u1"
                                 ELSE Verify(token).id]]
    /\ UNCHANGED <<db, apiKey, users, okSends, anyFailed>>

\* authMiddleware up to the user query
authMiddleware(r, authHeader) ==
    /\ req[r].pc = "idle" /\ req[r].auth = "none"
    /\ pre' = [pre EXCEPT ![r] = Snapshot]
    /\ latest' = r
    /\ LET token == SplitSecond(authHeader)
           decoded == Verify(token)
           rejected(message) == [IdleReq EXCEPT !.authHeader = authHeader,
                                    !.pc = "done", !.resp = Unauthorized(message)]
       IN  req' = [req EXCEPT ![r] =
               IF ~StartsWithBearer(authHeader)
               THEN rejected(<<"Access denied. No token provided.">>)
               ELSE IF token = <<>>
               THEN rejected(<<"Access denied. Invalid token format.">>)
               ELSE IF decoded.name = "JsonWebTokenError"
               THEN rejected(<<"Invalid token.">>)
               ELSE IF decoded.name = "TokenExpiredError"
               THEN rejected(<<"Token expired. Please login again.">>)
               ELSE [IdleReq EXCEPT !.authHeader = authHeader, !.pc = "findUser",
                                    !.user = decoded.id]]
    /\ UNCHANGED <<db, apiKey, users, okSends, anyFailed>>

\* prisma.user.findUnique, the 401 for a missing user, and next(): the
\* request goes on to the controller of its route
authMiddlewareFindUser(r) ==
    /\ req[r].pc = "findUser"
    /\ req' = [req EXCEPT ![r] =
           IF req[r].user \notin UserTable
           THEN [@ EXCEPT !.pc = "done",
                          !.resp = Unauthorized(<<"User no longer exists.">>)]
           ELSE [@ EXCEPT !.pc = "idle", !.auth = "passed"]]
    /\ UNCHANGED <<db, apiKey, users, pre, latest, okSends, anyFailed>>

\* --------------------------------------------------------- chat controller
ServiceUnavailable ==
    Json(503, FALSE, <<"AI service temporarily unavailable. Please try again.">>,
         NoData)

\* the catch block of sendMessage
sendMessageCatch(error) ==
    IF Includes(error.message, "GEMINI") THEN ServiceUnavailable
    ELSE errorHandler(error)

\* POST /api/chat/:projectId, up to the ownership query
sendMessage(r, u, pid, message) ==
    /\ req[r].pc = "idle"
    /\ pre' = [pre EXCEPT ![r] = Snapshot]
    /\ latest' = r
    /\ IF IsBlank(message)
       THEN /\ req' = [req EXCEPT ![r] =
                   [Arrive(r, "sendMessage", u, pid) EXCEPT
                       !.message = message, !.pc = "done",
                       !.resp = Json(400, FALSE, <<"Message is required">>, NoData)]]
       ELSE /\ req' = [req EXCEPT ![r] =
                   [Arrive(r, "sendMessage", u, pid) EXCEPT !.message = message]]
    /\ UNCHANGED <<db, apiKey, users, okSends, anyFailed>>

\* the ownership query and the 404 of sendMessage
sendMessageFindProject(r) ==
    /\ req[r].op = "sendMessage" /\ req[r].pc = "findProject"
    /\ LET project == FindOwnedProject(req[r].projectId, req[r].user)
       IN  IF project = NoProject
           THEN /\ req' = [req EXCEPT ![r].pc = "done", ![r].resp = ProjectNotFound,
                                      ![r].existed = ProjectExists(req[r].projectId)]
           ELSE /\ req' = [req EXCEPT ![r].pc = "saveUser", ![r].project = project,
                                      ![r].existed = TRUE]
    /\ UNCHANGED <<db, apiKey, users, pre, latest, okSends, anyFailed>>

\* sendMessageSaveUser that reuses the last turn of the conversation when it
\* is a user turn with the same text
sendMessageSaveUserOnce(r) ==
    /\ req[r].op = "sendMessage" /\ req[r].pc = "saveUser"
    /\ LET turns == MessagesOf(messages, req[r].projectId)
           userMessage == NewMessage("user", Trim(req[r].message), req[r].projectId)
       IN  IF turns # <<>> /\ turns[Len(turns)].role = "user"
                /\ turns[Len(turns)].content = userMessage.content
           THEN /\ req' = [req EXCEPT ![r].pc = "history",
                                      ![r].userMessage = turns[Len(turns)]]
                /\ UNCHANGED <<messages, nextMid>>
           ELSE /\ messages' = Append(messages, userMessage)
                /\ nextMid' = nextMid + 1
                /\ req' = [req EXCEPT ![r].pc = "history",
                                      ![r].userMessage = userMessage]
    /\ UNCHANGED <<projects, files, disk, nextPid, nextFid, apiKey, users, pre, latest,
                   okSends, anyFailed>>

\* prisma.message.create of the user message
sendMessageSaveUser(r) ==
    /\ req[r].op = "sendMessage" /\ req[r].pc = "saveUser"
    /\ IF ProjectExists(req[r].projectId)
       THEN LET userMessage == NewMessage("user", Trim(req[r].message),
                                          req[r].projectId)
            IN  /\ messages' = Append(messages, userMessage)
                /\ nextMid' = nextMid + 1
                /\ req' = [req EXCEPT ![r].pc = "history",
                                      ![r].userMessage = userMessage]
       ELSE /\ req' = [req EXCEPT ![r].pc = "done", ![r].failedAt = "saveUser",
                                  ![r].resp = sendMessageCatch(ForeignKeyError)]
            /\ UNCHANGED <<messages, nextMid>>
    /\ UNCHANGED <<projects, files, disk, nextPid, nextFid, apiKey, users, pre, latest,
                   okSends, anyFailed>>

\* prisma.message.findMany of the conversation history
sendMessageHistory(r) ==
    /\ req[r].op = "sendMessage" /\ req[r].pc = "history"
    /\ req' = [req EXCEPT ![r].pc = "generate",
                          ![r].history = FindManyMessages(req[r].projectId,
                                                          ContextWindow)]
    /\ UNCHANGED <<db, apiKey, users, pre, latest, okSends, anyFailed>>

\* sendMessageGenerate that calls the model again after a failed call
sendMessageGenerateRetry(r, outcome) ==
    /\ req[r].op = "sendMessage" /\ req[r].pc = "generate"
    /\ LET gen == generateResponse(req[r].project.systemPrompt, req[r].history,
                                   outcome)
       IN  IF gen.ok
           THEN /\ req' = [req EXCEPT ![r].pc = "saveAssistant", ![r].gen = gen]
                /\ UNCHANGED anyFailed
           ELSE IF req[r].gen.called
           THEN /\ req' = [req EXCEPT ![r].pc = "done", ![r].gen = gen,
                                      ![r].resp = sendMessageCatch(gen.error)]
                /\ anyFailed' = TRUE
           ELSE /\ req' = [req EXCEPT ![r].gen = [gen EXCEPT !.called = TRUE]]
                /\ UNCHANGED anyFailed
    /\ UNCHANGED <<db, apiKey, users, pre, latest, okSends>>

\* geminiService.generateResponse(project.systemPrompt, history)
sendMessageGenerate(r, outcome) ==
    /\ req[r].op = "sendMessage" /\ req[r].pc = "generate"
    /\ LET gen == generateResponse(req[r].project.systemPrompt, req[r].history,
                                   outcome)
       IN  IF gen.ok
           THEN /\ req' = [req EXCEPT ![r].pc = "saveAssistant", ![r].gen = gen]
                /\ UNCHANGED anyFailed
           ELSE /\ req' = [req EXCEPT ![r].pc = "done", ![r].gen = gen,
                                      ![r].resp = sendMessageCatch(gen.error)]
                /\ anyFailed' = TRUE
    /\ UNCHANGED <<db, apiKey, users, pre, latest, okSends>>

\* sendMessageSaveAssistant that returns the assistant row in both fields
sendMessageSaveAssistantTwice(r) ==
    /\ req[r].op = "sendMessage" /\ req[r].pc = "saveAssistant"
    /\ IF ProjectExists(req[r].projectId)
       THEN LET assistantMessage == NewMessage("assistant", req[r].gen.text,
                                               req[r].projectId)
            IN  /\ messages' = Append(messages, assistantMessage)
                /\ nextMid' = nextMid + 1
                /\ req' = [req EXCEPT ![r].pc = "done",
                              ![r].resp = Json(200, TRUE, <<>>,
                                  [kind |-> "chat",
                                   userMessage |-> assistantMessage,
                                   assistantMessage |-> assistantMessage])]
                /\ okSends' = okSends + 1
                /\ UNCHANGED anyFailed
       ELSE /\ req' = [req EXCEPT ![r].pc = "done",
                                  ![r].resp = sendMessageCatch(ForeignKeyError)]
            /\ anyFailed' = TRUE
            /\ UNCHANGED <<messages, nextMid, okSends>>
    /\ UNCHANGED <<projects, files, disk, nextPid, nextFid, apiKey, users, pre, latest>>

\* prisma.message.create of the assistant message, and the 200
sendMessageSaveAssistant(r) ==
    /\ req[r].op = "sendMessage" /\ req[r].pc = "saveAssistant"
    /\ IF ProjectExists(req[r].projectId)
       THEN LET assistantMessage == NewMessage("assistant", req[r].gen.text,
                                               req[r].projectId)
            IN  /\ messages' = Append(messages, assistantMessage)
                /\ nextMid' = nextMid + 1
                /\ req' = [req EXCEPT ![r].pc = "done",
                              ![r].resp = Json(200, TRUE, <<>>,
                                  [kind |-> "chat",
                                   userMessage |-> req[r].userMessage,
                                   assistantMessage |-> assistantMessage])]
                /\ okSends' = okSends + 1
                /\ UNCHANGED anyFailed
       ELSE /\ req' = [req EXCEPT ![r].pc = "done", ![r].failedAt = "saveAssistant",
                                  ![r].resp = sendMessageCatch(ForeignKeyError)]
            /\ anyFailed' = TRUE
            /\ UNCHANGED <<messages, nextMid, okSends>>
    /\ UNCHANGED <<projects, files, disk, nextPid, nextFid, apiKey, users, pre, latest>>

\* what a query rejects with when the database cannot be reached
StorageErrors ==
    {[message |-> <<"Can't reach database server">>, code |-> "P1001"]}

\* sendMessageStorageFailure that swallows the error and goes on with the
\* next statement of the handler
sendMessageStorageFailureSwallowed(r, error) ==
    /\ req[r].op = "sendMessage"
    /\ req[r].pc \in {"findProject", "saveUser", "history", "saveAssistant"}
    /\ req' = [req EXCEPT ![r].failedAt = req[r].pc,
                          ![r].pc = IF req[r].pc = "findProject" THEN "saveUser"
                                    ELSE IF req[r].pc = "saveUser" THEN "history"
                                    ELSE IF req[r].pc = "history" THEN "generate"
                                    ELSE "done"]
    /\ anyFailed' = (anyFailed \/ req[r].pc \in {"history", "saveAssistant"})
    /\ UNCHANGED <<db, apiKey, users, pre, latest, okSends>>

\* an awaited query of sendMessage rejects: the ownership query, the create
\* of the user message, the history query or the create of the assistant
\* message; control goes to the catch block
sendMessageStorageFailure(r, error) ==
    /\ req[r].op = "sendMessage"
    /\ req[r].pc \in {"findProject", "saveUser", "history", "saveAssistant"}
    /\ req' = [req EXCEPT ![r].pc = "done", ![r].failedAt = req[r].pc,
                          ![r].resp = sendMessageCatch(error)]
    /\ anyFailed' = (anyFailed \/ req[r].pc \in {"history", "saveAssistant"})
    /\ UNCHANGED <<db, apiKey, users, pre, latest, okSends>>

\* OwnershipQuery that answers 403 when the project is somebody else's
OwnershipQueryForbidden(r, nextPc) ==
    LET project == FindOwnedProject(req[r].projectId, req[r].user)
    IN  IF project = NoProject
        THEN [req[r] EXCEPT !.pc = "done",
                 !.resp = IF ProjectExists(req[r].projectId)
                          THEN Json(403, FALSE, <<"Access denied">>, NoData)
                          ELSE ProjectNotFound,
                 !.existed = ProjectExists(req[r].projectId)]
        ELSE [req[r] EXCEPT !.pc = nextPc, !.project = project, !.existed = TRUE]

\* the ownership query every handler starts with, and its 404
OwnershipQuery(r, nextPc) ==
    LET project == FindOwnedProject(req[r].projectId, req[r].user)
    IN  IF project = NoProject
        THEN [req[r] EXCEPT !.pc = "done", !.resp = ProjectNotFound,
                            !.existed = ProjectExists(req[r].projectId)]
        ELSE [req[r] EXCEPT !.pc = nextPc, !.project = project, !.existed = TRUE]

\* parseInt(req.query.limit) || 50
ParseLimit(limit) ==
    IF limit.kind = "int" /\ limit.n # 0 THEN limit.n ELSE DefaultLimit

\* GET /api/chat/:projectId/messages
getMessages(r, u, pid, limit) ==
    /\ req[r].pc = "idle"
    /\ pre' = [pre EXCEPT ![r] = Snapshot]
    /\ latest' = r
    /\ req' = [req EXCEPT ![r] =
                  [Arrive(r, "getMessages", u, pid) EXCEPT !.limit = limit]]
    /\ UNCHANGED <<db, apiKey, users, okSends, anyFailed>>

getMessagesFindProject(r) ==
    /\ req[r].op = "getMessages" /\ req[r].pc = "findProject"
    /\ req' = [req EXCEPT ![r] = OwnershipQuery(r, "findMany")]
    /\ UNCHANGED <<db, apiKey, users, pre, latest, okSends, anyFailed>>

getMessagesFindMany(r) ==
    /\ req[r].op = "getMessages" /\ req[r].pc = "findMany"
    /\ req' = [req EXCEPT ![r].pc = "done",
                  ![r].resp = Json(200, TRUE, <<>>,
                      [kind |-> "messages",
                       messages |-> FindManyMessages(req[r].projectId,
                                                     ParseLimit(req[r].limit))])]
    /\ UNCHANGED <<db, apiKey, users, pre, latest, okSends, anyFailed>>

\* DELETE /api/chat/:projectId/messages
clearMessages(r, u, pid) ==
    /\ req[r].pc = "idle"
    /\ pre' = [pre EXCEPT ![r] = Snapshot]
    /\ latest' = r
    /\ req' = [req EXCEPT ![r] = Arrive(r, "clearMessages", u, pid)]
    /\ UNCHANGED <<db, apiKey, users, okSends, anyFailed>>

clearMessagesFindProject(r) ==
    /\ req[r].op = "clearMessages" /\ req[r].pc = "findProject"
    /\ req' = [req EXCEPT ![r] = OwnershipQuery(r, "deleteMany")]
    /\ UNCHANGED <<db, apiKey, users, pre, latest, okSends, anyFailed>>

\* `Cleared ${result.count} messages`
ClearedText(count) == <<"Cleared ">> \o NumStr(count) \o <<" messages">>

\* clearMessagesDeleteMany that blanks the rows instead of deleting them
clearMessagesBlank(r) ==
    /\ req[r].op = "clearMessages" /\ req[r].pc = "deleteMany"
    /\ LET count == Len(MessagesOf(messages, req[r].projectId))
       IN  /\ messages' = [i \in 1..Len(messages) |->
                               IF messages[i].projectId = req[r].projectId
                               THEN [messages[i] EXCEPT !.content = <<>>]
                               ELSE messages[i]]
           /\ req' = [req EXCEPT ![r].pc = "done",
                         ![r].resp = Json(200, TRUE, ClearedText(count), NoData)]
    /\ UNCHANGED <<projects, files, disk, nextPid, nextMid, nextFid, apiKey, users, pre,
                   latest, okSends, anyFailed>>

\* clearMessagesDeleteMany without the where clause
clearMessagesDeleteAll(r) ==
    /\ req[r].op = "clearMessages" /\ req[r].pc = "deleteMany"
    /\ LET count == Len(messages)
       IN  /\ messages' = <<>>
           /\ req' = [req EXCEPT ![r].pc = "done",
                         ![r].resp = Json(200, TRUE, ClearedText(count), NoData)]
    /\ UNCHANGED <<projects, files, disk, nextPid, nextMid, nextFid, apiKey, users, pre,
                   latest, okSends, anyFailed>>

\* prisma.message.deleteMany({ where: { projectId } })
clearMessagesDeleteMany(r) ==
    /\ req[r].op = "clearMessages" /\ req[r].pc = "deleteMany"
    /\ LET count == Len(MessagesOf(messages, req[r].projectId))
       IN  /\ messages' = SelectSeq(messages,
                              LAMBDA m : m.projectId # req[r].projectId)
           /\ req' = [req EXCEPT ![r].pc = "done",
                         ![r].resp = Json(200, TRUE, ClearedText(count), NoData)]
    /\ UNCHANGED <<projects, files, disk, nextPid, nextMid, nextFid, apiKey, users, pre,
                   latest, okSends, anyFailed>>

\* ------------------------------------------------------ project controller
FilesOf(tbl, pid) == SelectSeq(tbl, LAMBDA f : f.projectId = pid)

\* the rows of a sequence, newest first
Reverse(s) == [i \in 1..Len(s) |-> s[Len(s) + 1 - i]]

\* GET /api/projects/:id
getProject(r, u, pid) ==
    /\ req[r].pc = "idle"
    /\ pre' = [pre EXCEPT ![r] = Snapshot]
    /\ latest' = r
    /\ req' = [req EXCEPT ![r] = Arrive(r, "getProject", u, pid)]
    /\ UNCHANGED <<db, apiKey, users, okSends, anyFailed>>

getProjectFindFirst(r) ==
    /\ req[r].op = "getProject" /\ req[r].pc = "findProject"
    /\ LET q == OwnershipQuery(r, "done")
           mine == Reverse(FilesOf(files, req[r].projectId))
       IN  req' = [req EXCEPT ![r] =
                IF q.project = NoProject THEN q
                ELSE [q EXCEPT !.resp = Json(200, TRUE, <<>>,
                         [kind |-> "project", project |-> q.project,
                          messageCount |-> Len(MessagesOf(messages, req[r].projectId)),
                          fileCount |-> Len(mine),
                          files |-> SubSeq(mine, 1, Min(10, Len(mine)))])]]
    /\ UNCHANGED <<db, apiKey, users, pre, latest, okSends, anyFailed>>

\* description?.trim() || null
TrimOrNull(v) == IF v = Undefined \/ v = Null \/ Trim(v) = <<>> THEN Null ELSE Trim(v)

\* systemPrompt?.trim() || 'You are a helpful assistant.'
DefaultSystemPrompt == <<"You are a helpful assistant.">>
TrimOrDefault(v) ==
    IF v = Undefined \/ v = Null \/ Trim(v) = <<>> THEN DefaultSystemPrompt
    ELSE Trim(v)

\* POST /api/projects
createProject(r, u, body) ==
    /\ req[r].pc = "idle"
    /\ pre' = [pre EXCEPT ![r] = Snapshot]
    /\ latest' = r
    /\ req' = [req EXCEPT ![r] =
          IF IsBlank(body.name)
          THEN [Arrive(r, "createProject", u, 0) EXCEPT !.body = body, !.pc = "done",
                   !.resp = Json(400, FALSE, <<"Project name is required">>, NoData)]
          ELSE [Arrive(r, "createProject", u, 0) EXCEPT !.body = body, !.pc = "create"]]
    /\ UNCHANGED <<db, apiKey, users, okSends, anyFailed>>

createProjectCreate(r) ==
    /\ req[r].op = "createProject" /\ req[r].pc = "create"
    /\ LET project == [id |-> nextPid, userId |-> req[r].user,
                       name |-> Trim(req[r].body.name),
                       description |-> TrimOrNull(req[r].body.description),
                       systemPrompt |-> TrimOrDefault(req[r].body.systemPrompt)]
       IN  /\ projects' = projects \cup {project}
           /\ nextPid' = nextPid + 1
           /\ req' = [req EXCEPT ![r].pc = "done", ![r].project = project,
                         ![r].projectId = project.id,
                         ![r].resp = Json(201, TRUE, <<"Project created successfully">>,
                                          [kind |-> "created", project |-> project])]
    /\ UNCHANGED <<messages, files, disk, nextMid, nextFid, apiKey, users, pre, latest,
                   okSends, anyFailed>>

\* PUT /api/projects/:id
updateProject(r, u, pid, body) ==
    /\ req[r].pc = "idle"
    /\ pre' = [pre EXCEPT ![r] = Snapshot]
    /\ latest' = r
    /\ req' = [req EXCEPT ![r] =
                  [Arrive(r, "updateProject", u, pid) EXCEPT !.body = body]]
    /\ UNCHANGED <<db, apiKey, users, okSends, anyFailed>>

updateProjectFindFirst(r) ==
    /\ req[r].op = "updateProject" /\ req[r].pc = "findProject"
    /\ req' = [req EXCEPT ![r] = OwnershipQuery(r, "update")]
    /\ UNCHANGED <<db, apiKey, users, pre, latest, okSends, anyFailed>>

\* ApplyUpdateData that fills the fields the body leaves out the way
\* createProject does
ApplyUpdateDataDefaults(row, body) ==
    [row EXCEPT
        !.name = IF body.name # Undefined THEN Trim(body.name) ELSE @,
        !.description = TrimOrNull(body.description),
        !.systemPrompt = TrimOrDefault(body.systemPrompt)]

\* the update object with only the provided fields, applied to a row
ApplyUpdateData(row, body) ==
    [row EXCEPT
        !.name = IF body.name # Undefined THEN Trim(body.name) ELSE @,
        !.description = IF body.description # Undefined
                        THEN TrimOrNull(body.description) ELSE @,
        !.systemPrompt = IF body.systemPrompt # Undefined
                         THEN Trim(body.systemPrompt) ELSE @]

\* prisma.project.update({ where: { id }, data: updateData })
updateProjectUpdate(r) ==
    /\ req[r].op = "updateProject" /\ req[r].pc = "update"
    /\ IF req[r].body.name = Null \/ req[r].body.systemPrompt = Null
       THEN \* name.trim() or systemPrompt.trim() on null throws a TypeError
            /\ req' = [req EXCEPT ![r].pc = "done",
                          ![r].resp = errorHandler(
                              [message |-> <<"Cannot read properties of null (reading 'trim')">>,
                               code |-> ""])]
            /\ UNCHANGED projects
       ELSE IF ProjectExists(req[r].projectId)
       THEN LET row == CHOOSE p \in projects : p.id = req[r].projectId
                project == ApplyUpdateData(row, req[r].body)
            IN  /\ projects' = (projects \ {row}) \cup {project}
                /\ req' = [req EXCEPT ![r].pc = "done",
                              ![r].resp = Json(200, TRUE,
                                  <<"Project updated successfully">>,
                                  [kind |-> "updated", project |-> project])]
       ELSE /\ req' = [req EXCEPT ![r].pc = "done",
                                  ![r].resp = errorHandler(RecordNotFoundError)]
            /\ UNCHANGED projects
    /\ UNCHANGED <<messages, files, disk, nextPid, nextMid, nextFid, apiKey, users, pre,
                   latest, okSends, anyFailed>>

\* DELETE /api/projects/:id
deleteProject(r, u, pid) ==
    /\ req[r].pc = "idle"
    /\ pre' = [pre EXCEPT ![r] = Snapshot]
    /\ latest' = r
    /\ req' = [req EXCEPT ![r] = Arrive(r, "deleteProject", u, pid)]
    /\ UNCHANGED <<db, apiKey, users, okSends, anyFailed>>

deleteProjectFindFirst(r) ==
    /\ req[r].op = "deleteProject" /\ req[r].pc = "findProject"
    /\ req' = [req EXCEPT ![r] = OwnershipQuery(r, "delete")]
    /\ UNCHANGED <<db, apiKey, users, pre, latest, okSends, anyFailed>>

\* the relations of Message and File to Project are onDelete: Cascade
CascadeDelete(tbl, pid) == SelectSeq(tbl, LAMBDA row : row.projectId # pid)

\* deleteProjectDelete whose delete has lost its where clause
deleteProjectDeleteNoWhere(r) ==
    /\ req[r].op = "deleteProject" /\ req[r].pc = "delete"
    /\ IF ProjectExists(req[r].projectId)
       THEN /\ projects' = {}
            /\ messages' = CascadeDelete(messages, req[r].projectId)
            /\ files' = CascadeDelete(files, req[r].projectId)
            /\ req' = [req EXCEPT ![r].pc = "done",
                          ![r].resp = Json(200, TRUE,
                              <<"Project deleted successfully">>, NoData)]
       ELSE /\ req' = [req EXCEPT ![r].pc = "done",
                                  ![r].resp = errorHandler(RecordNotFoundError)]
            /\ UNCHANGED <<projects, messages, files>>
    /\ UNCHANGED <<disk, nextPid, nextMid, nextFid, apiKey, users, pre, latest, okSends,
                   anyFailed>>

\* deleteProjectDelete that deletes with deleteMany, which does not throw
\* when no row matches
deleteProjectDeleteMany(r) ==
    /\ req[r].op = "deleteProject" /\ req[r].pc = "delete"
    /\ projects' = {p \in projects : p.id # req[r].projectId}
    /\ messages' = CascadeDelete(messages, req[r].projectId)
    /\ files' = CascadeDelete(files, req[r].projectId)
    /\ req' = [req EXCEPT ![r].pc = "done",
                  ![r].resp = Json(200, TRUE,
                      <<"Project deleted successfully">>, NoData)]
    /\ UNCHANGED <<disk, nextPid, nextMid, nextFid, apiKey, users, pre, latest,
                   okSends, anyFailed>>

\* prisma.project.delete({ where: { id } })
deleteProjectDelete(r) ==
    /\ req[r].op = "deleteProject" /\ req[r].pc = "delete"
    /\ IF ProjectExists(req[r].projectId)
       THEN /\ projects' = {p \in projects : p.id # req[r].projectId}
            /\ messages' = CascadeDelete(messages, req[r].projectId)
            /\ files' = CascadeDelete(files, req[r].projectId)
            /\ req' = [req EXCEPT ![r].pc = "done",
                          ![r].resp = Json(200, TRUE,
                              <<"Project deleted successfully">>, NoData)]
       ELSE /\ req' = [req EXCEPT ![r].pc = "done",
                                  ![r].resp = errorHandler(RecordNotFoundError)]
            /\ UNCHANGED <<projects, messages, files>>
    /\ UNCHANGED <<disk, nextPid, nextMid, nextFid, apiKey, users, pre, latest, okSends,
                   anyFailed>>

\* --------------------------------------------------------- file controller
FileNotFound == Json(404, FALSE, <<"File not found">>, NoData)

\* prisma.file.findFirst({ where: { id: fileId, projectId } })
FindFile(fid, pid) ==
    IF \E i \in 1..Len(files) : files[i].id = fid /\ files[i].projectId = pid
    THEN files[CHOOSE i \in 1..Len(files) :
                   files[i].id = fid /\ files[i].projectId = pid]
    ELSE NoFile

\* GET /api/files/:projectId
getFiles(r, u, pid) ==
    /\ req[r].pc = "idle"
    /\ pre' = [pre EXCEPT ![r] = Snapshot]
    /\ latest' = r
    /\ req' = [req EXCEPT ![r] = Arrive(r, "getFiles", u, pid)]
    /\ UNCHANGED <<db, apiKey, users, okSends, anyFailed>>

getFilesFindProject(r) ==
    /\ req[r].op = "getFiles" /\ req[r].pc = "findProject"
    /\ req' = [req EXCEPT ![r] = OwnershipQuery(r, "findMany")]
    /\ UNCHANGED <<db, apiKey, users, pre, latest, okSends, anyFailed>>

getFilesFindMany(r) ==
    /\ req[r].op = "getFiles" /\ req[r].pc = "findMany"
    /\ req' = [req EXCEPT ![r].pc = "done",
                  ![r].resp = Json(200, TRUE, <<>>,
                      [kind |-> "files",
                       files |-> Reverse(FilesOf(files, req[r].projectId))])]
    /\ UNCHANGED <<db, apiKey, users, pre, latest, okSends, anyFailed>>

\* POST /api/files/:projectId: upload.single('file') has stored the file
\* under a unique name before the controller runs, when the request has one
uploadFile(r, u, pid, hasFile) ==
    /\ req[r].pc = "idle"
    /\ pre' = [pre EXCEPT ![r] = Snapshot]
    /\ latest' = r
    /\ IF hasFile
       THEN /\ disk' = disk \cup {nextFid}
            /\ nextFid' = nextFid + 1
            /\ req' = [req EXCEPT ![r] =
                          [Arrive(r, "uploadFile", u, pid) EXCEPT
                              !.file = [id |-> 0, filename |-> <<"h">>,
                                        storedName |-> nextFid, projectId |-> 0]]]
       ELSE /\ req' = [req EXCEPT ![r] =
                          [Arrive(r, "uploadFile", u, pid) EXCEPT !.pc = "done",
                              !.resp = Json(400, FALSE, <<"No file uploaded">>, NoData)]]
            /\ UNCHANGED <<disk, nextFid>>
    /\ UNCHANGED <<projects, messages, files, nextPid, nextMid, apiKey, users,
                   okSends, anyFailed>>

\* the ownership query of uploadFile; the stored file is unlinked on a 404
uploadFileFindProject(r) ==
    /\ req[r].op = "uploadFile" /\ req[r].pc = "findProject"
    /\ LET q == OwnershipQuery(r, "create")
       IN  /\ req' = [req EXCEPT ![r] = q]
           /\ disk' = IF q.project = NoProject
                      THEN disk \ {req[r].file.storedName} ELSE disk
    /\ UNCHANGED <<projects, messages, files, nextPid, nextMid, nextFid, apiKey, users,
                   pre, latest, okSends, anyFailed>>

\* uploadFileCreate on a File table without the foreign key to Project
uploadFileCreateNoForeignKey(r) ==
    /\ req[r].op = "uploadFile" /\ req[r].pc = "create"
    /\ LET file == [req[r].file EXCEPT !.id = req[r].file.storedName,
                                       !.projectId = req[r].projectId]
       IN  /\ files' = Append(files, file)
           /\ req' = [req EXCEPT ![r].pc = "done", ![r].file = file,
                         ![r].resp = Json(201, TRUE,
                             <<"File uploaded successfully">>,
                             [kind |-> "file", file |-> file])]
           /\ UNCHANGED disk
    /\ UNCHANGED <<projects, messages, nextPid, nextMid, nextFid, apiKey, users, pre,
                   latest, okSends, anyFailed>>

\* prisma.file.create; the catch block unlinks the stored file
uploadFileCreate(r) ==
    /\ req[r].op = "uploadFile" /\ req[r].pc = "create"
    /\ IF ProjectExists(req[r].projectId)
       THEN LET file == [req[r].file EXCEPT !.id = req[r].file.storedName,
                                            !.projectId = req[r].projectId]
            IN  /\ files' = Append(files, file)
                /\ req' = [req EXCEPT ![r].pc = "done", ![r].file = file,
                              ![r].resp = Json(201, TRUE,
                                  <<"File uploaded successfully">>,
                                  [kind |-> "file", file |-> file])]
                /\ UNCHANGED disk
       ELSE /\ disk' = disk \ {req[r].file.storedName}
            /\ req' = [req EXCEPT ![r].pc = "done",
                                  ![r].resp = errorHandler(ForeignKeyError)]
            /\ UNCHANGED files
    /\ UNCHANGED <<projects, messages, nextPid, nextMid, nextFid, apiKey, users, pre,
                   latest, okSends, anyFailed>>

\* DELETE /api/files/:projectId/:fileId
deleteFile(r, u, pid, fid) ==
    /\ req[r].pc = "idle"
    /\ pre' = [pre EXCEPT ![r] = Snapshot]
    /\ latest' = r
    /\ req' = [req EXCEPT ![r] =
                  [Arrive(r, "deleteFile", u, pid) EXCEPT !.fileId = fid]]
    /\ UNCHANGED <<db, apiKey, users, okSends, anyFailed>>

deleteFileFindProject(r) ==
    /\ req[r].op = "deleteFile" /\ req[r].pc = "findProject"
    /\ req' = [req EXCEPT ![r] = OwnershipQuery(r, "findFile")]
    /\ UNCHANGED <<db, apiKey, users, pre, latest, okSends, anyFailed>>

deleteFileFindFile(r) ==
    /\ req[r].op = "deleteFile" /\ req[r].pc = "findFile"
    /\ LET file == FindFile(req[r].fileId, req[r].projectId)
       IN  req' = [req EXCEPT ![r] =
                IF file = NoFile THEN [@ EXCEPT !.pc = "done", !.resp = FileNotFound]
                ELSE [@ EXCEPT !.pc = "unlink", !.file = file]]
    /\ UNCHANGED <<db, apiKey, users, pre, latest, okSends, anyFailed>>

\* fs.unlink(file.path), a failure is only logged
deleteFileUnlink(r) ==
    /\ req[r].op = "deleteFile" /\ req[r].pc = "unlink"
    /\ disk' = disk \ {req[r].file.storedName}
    /\ req' = [req EXCEPT ![r].pc = "delete"]
    /\ UNCHANGED <<projects, messages, files, nextPid, nextMid, nextFid, apiKey, users,
                   pre, latest, okSends, anyFailed>>

\* prisma.file.delete({ where: { id: fileId } })
deleteFileDelete(r) ==
    /\ req[r].op = "deleteFile" /\ req[r].pc = "delete"
    /\ IF \E i \in 1..Len(files) : files[i].id = req[r].fileId
       THEN /\ files' = SelectSeq(files, LAMBDA f : f.id # req[r].fileId)
            /\ req' = [req EXCEPT ![r].pc = "done",
                          ![r].resp = Json(200, TRUE, <<"File deleted successfully">>,
                                           NoData)]
       ELSE /\ req' = [req EXCEPT ![r].pc = "done",
                                  ![r].resp = errorHandler(RecordNotFoundError)]
            /\ UNCHANGED files
    /\ UNCHANGED <<projects, messages, disk, nextPid, nextMid, nextFid, apiKey, users, pre,
                   latest, okSends, anyFailed>>

\* GET /api/files/:projectId/:fileId/download
downloadFile(r, u, pid, fid) ==
    /\ req[r].pc = "idle"
    /\ pre' = [pre EXCEPT ![r] = Snapshot]
    /\ latest' = r
    /\ req' = [req EXCEPT ![r] =
                  [Arrive(r, "downloadFile", u, pid) EXCEPT !.fileId = fid]]
    /\ UNCHANGED <<db, apiKey, users, okSends, anyFailed>>

downloadFileFindProject(r) ==
    /\ req[r].op = "downloadFile" /\ req[r].pc = "findProject"
    /\ req' = [req EXCEPT ![r] = OwnershipQuery(r, "findFile")]
    /\ UNCHANGED <<db, apiKey, users, pre, latest, okSends, anyFailed>>

\* the file query and res.download(file.path, file.filename)
downloadFileFindFile(r) ==
    /\ req[r].op = "downloadFile" /\ req[r].pc = "findFile"
    /\ LET file == FindFile(req[r].fileId, req[r].projectId)
       IN  req' = [req EXCEPT ![r] =
                IF file = NoFile THEN [@ EXCEPT !.pc = "done", !.resp = FileNotFound]
                ELSE IF file.storedName \in disk
                THEN [@ EXCEPT !.pc = "done", !.file = file,
                         !.resp = Json(200, TRUE, <<>>,
                                       [kind |-> "download", file |-> file])]
                ELSE [@ EXCEPT !.pc = "done", !.file = file,
                         !.resp = errorHandler([message |-> <<"ENOENT">>,
                                                code |-> "ENOENT"])]]
    /\ UNCHANGED <<db, apiKey, users, pre, latest, okSends, anyFailed>>

\* ------------------------------------------------------------- the server
\* --------------------------------------------------------- auth controller
\* the ids the database hands out to the rows of table User, and the token
\* jwt.sign makes for each
UserIds == <<"u1", "u2", "u3", "u4", "u5", "u6", "u7", "u8">>
JwtOf == [u1 |-> "jwt-u1", u2 |-> "jwt-u2", u3 |-> "jwt-u3", u4 |-> "jwt-u4",
          u5 |-> "jwt-u5", u6 |-> "jwt-u6", u7 |-> "jwt-u7", u8 |-> "jwt-u8"]

\* generateToken(user): jwt.sign({ id, email }, JWT_SECRET)
generateToken(user) == <<JwtOf[user.id]>>

\* String.prototype.toLowerCase, character by character
LowerCase(c) == IF c = "A" THEN "a" ELSE IF c = "N" THEN "n" ELSE c
ToLowerCase(s) == [i \in 1..Len(s) |-> LowerCase(s[i])]

\* /^[^\s@]+@[^\s@]+\.[^\s@]+$/.test(email)
EmailRegexTest(email) ==
    \E i, j \in 1..Len(email) :
        /\ 1 < i /\ i + 1 < j /\ j < Len(email)
        /\ email[i] = "@" /\ email[j] = "."
        /\ \A k \in (1..Len(email)) \ {i} : email[k] \notin {" ", "@"}

\* bcrypt.hash(password, salt)
Hash(password) == <<"$2b$12$">> \o password

\* the accounts of Users
ServerUsers ==
    <<[id |-> "u1", email |-> <<"a", "@", "b", ".", "c">>,
       password |-> Hash(<<"s", "e", "c", "r", "e", "t">>), name |-> <<"h">>],
      [id |-> "u2", email |-> <<"h", "@", "b", ".", "c">>,
       password |-> Hash(<<"s", "e", "c", "r", "e", "t">>), name |-> <<"h">>]>>

\* prisma.user.findUnique({ where: { email } })
EmailTaken(email) == \E i \in 1..Len(users) : users[i].email = email

UniqueEmailError == [message |-> <<"Unique constraint failed on the fields: (email)">>,
                     code |-> "P2002", target |-> "email"]

\* POST /api/auth/register: the validations before the first query
register(r, body) ==
    /\ req[r].pc = "idle"
    /\ pre' = [pre EXCEPT ![r] = Snapshot]
    /\ latest' = r
    /\ LET arrived == [Arrive(r, "register", "", 0) EXCEPT !.body = body]
           rejected(message) == [arrived EXCEPT !.pc = "done",
                                    !.resp = Json(400, FALSE, message, NoData)]
       IN  req' = [req EXCEPT ![r] =
               IF ~Truthy(body.email) \/ ~Truthy(body.password) \/ ~Truthy(body.name)
               THEN rejected(<<"Please provide email, password, and name">>)
               ELSE IF ~EmailRegexTest(body.email)
               THEN rejected(<<"Please provide a valid email address">>)
               ELSE IF Len(body.password) < 6
               THEN rejected(<<"Password must be at least 6 characters long">>)
               ELSE [arrived EXCEPT !.pc = "findUnique"]]
    /\ UNCHANGED <<db, apiKey, users, okSends, anyFailed>>

\* the query for an account with this email
registerFindUnique(r) ==
    /\ req[r].op = "register" /\ req[r].pc = "findUnique"
    /\ req' = [req EXCEPT ![r] =
           IF EmailTaken(ToLowerCase(req[r].body.email))
           THEN [@ EXCEPT !.pc = "done", !.existed = TRUE,
                    !.resp = Json(400, FALSE,
                        <<"An account with this email already exists">>, NoData)]
           ELSE [@ EXCEPT !.pc = "genSalt"]]
    /\ UNCHANGED <<db, apiKey, users, pre, latest, okSends, anyFailed>>

\* await bcrypt.genSalt(12)
registerGenSalt(r) ==
    /\ req[r].op = "register" /\ req[r].pc = "genSalt"
    /\ req' = [req EXCEPT ![r].pc = "hash"]
    /\ UNCHANGED <<db, apiKey, users, pre, latest, okSends, anyFailed>>

\* await bcrypt.hash(password, salt)
registerHash(r) ==
    /\ req[r].op = "register" /\ req[r].pc = "hash"
    /\ req' = [req EXCEPT ![r].pc = "create",
                  ![r].hashedPassword = Hash(req[r].body.password)]
    /\ UNCHANGED <<db, apiKey, users, pre, latest, okSends, anyFailed>>

\* registerCreate on a User table whose email column is not unique
registerCreateNotUnique(r) ==
    /\ req[r].op = "register" /\ req[r].pc = "create"
    /\ LET email == ToLowerCase(req[r].body.email)
           user == [id |-> UserIds[Len(users) + 1], email |-> email,
                    name |-> Trim(req[r].body.name)]
       IN  /\ users' = Append(users,
                  [id |-> user.id, email |-> email,
                   password |-> req[r].hashedPassword, name |-> user.name])
           /\ req' = [req EXCEPT ![r].pc = "done",
                          ![r].resp = Json(201, TRUE,
                              <<"Account created successfully">>,
                              [kind |-> "registered", user |-> user,
                               token |-> generateToken(user)])]
    /\ UNCHANGED <<db, apiKey, pre, latest, okSends, anyFailed>>

\* prisma.user.create, generateToken and the 201; email is a unique field
registerCreate(r) ==
    /\ req[r].op = "register" /\ req[r].pc = "create"
    /\ LET email == ToLowerCase(req[r].body.email)
           user == [id |-> UserIds[Len(users) + 1], email |-> email,
                    name |-> Trim(req[r].body.name)]
       IN  IF EmailTaken(email)
           THEN /\ req' = [req EXCEPT ![r].pc = "done",
                               ![r].resp = errorHandler(UniqueEmailError)]
                /\ UNCHANGED users
           ELSE /\ users' = Append(users,
                       [id |-> user.id, email |-> email,
                        password |-> req[r].hashedPassword, name |-> user.name])
                /\ req' = [req EXCEPT ![r].pc = "done",
                               ![r].resp = Json(201, TRUE,
                                   <<"Account created successfully">>,
                                   [kind |-> "registered", user |-> user,
                                    token |-> generateToken(user)])]
    /\ UNCHANGED <<db, apiKey, pre, latest, okSends, anyFailed>>

\* no request is being handled
Idle == \A r \in Reqs : req[r].pc \in {"idle", "done"}

\* what the clients send
Pirate == <<"You are a pirate.">>
MessageInputs == {Undefined, <<"h", "i">>} \cup Texts
BodyInputs == {NoBody,
               [NoBody EXCEPT !.name = <<" ">>],
               [NoBody EXCEPT !.name = <<" ", "h">>],
               [NoBody EXCEPT !.name = <<"h">>, !.systemPrompt = Pirate],
               [NoBody EXCEPT !.description = <<"h", " ">>],
               [NoBody EXCEPT !.systemPrompt = <<" ">>]}
LimitInputs == {NoLimit, [kind |-> "text", n |-> 0]}
               \cup [kind : {"int"}, n : -1..2]
FileIds == 1..MaxFiles

\* the ids a request can name: those handed out, and one that never was
ProjectIds == 1..nextPid

\* the server right after start, with an empty database
Init ==
    /\ projects = {}
    /\ messages = <<>>
    /\ files = <<>>
    /\ disk = {}
    /\ nextPid = 1
    /\ nextMid = 1
    /\ nextFid = 1
    /\ apiKey \in BOOLEAN
    /\ users = ServerUsers
    /\ req = [r \in Reqs |-> IdleReq]
    /\ pre = [r \in Reqs |-> NoSnapshot]
    /\ latest = "none"
    /\ okSends = 0
    /\ anyFailed = FALSE

\* the server once u1 has created project 1 with the pirate prompt, and u2
\* has created project 2 and updated its prompt to a blank one
ServerProjects ==
    {[id |-> 1, userId |-> "u1", name |-> <<"h">>, description |-> Null,
      systemPrompt |-> Pirate],
     [id |-> 2, userId |-> "u2", name |-> <<"h">>, description |-> Null,
      systemPrompt |-> <<>>]}

InitServer ==
    /\ projects = ServerProjects
    /\ messages = <<>>
    /\ files = <<>>
    /\ disk = {}
    /\ nextPid = 3
    /\ nextMid = 1
    /\ nextFid = 1
    /\ apiKey \in BOOLEAN
    /\ users = ServerUsers
    /\ req = [r \in Reqs |-> IdleReq]
    /\ pre = [r \in Reqs |-> NoSnapshot]
    /\ latest = "none"
    /\ okSends = 0
    /\ anyFailed = FALSE

\* a request for the chat routes arrives at slot r
ChatArrival(r, texts, limits) ==
    \E u \in Users, pid \in ProjectIds :
        \/ \E message \in texts :
               /\ nextMid + 1 <= MaxMessages
               /\ sendMessage(r, u, pid, message)
        \/ \E limit \in limits : getMessages(r, u, pid, limit)
        \/ clearMessages(r, u, pid)

\* the chat handler of slot r runs up to its next await
ChatStep(r) ==
    \/ sendMessageFindProject(r)
    \/ sendMessageSaveUser(r)
    \/ sendMessageHistory(r)
    \/ \E outcome \in ModelOutcomes : sendMessageGenerate(r, outcome)
    \/ sendMessageSaveAssistant(r)
    \/ getMessagesFindProject(r)
    \/ getMessagesFindMany(r)
    \/ clearMessagesFindProject(r)
    \/ clearMessagesDeleteMany(r)

\* a request to create a project arrives at slot r
CreateArrival(r, bodies) ==
    \E u \in Users, body \in bodies :
        /\ nextPid <= MaxProjects
        /\ createProject(r, u, body)

\* a request for a project route with an id arrives at slot r
ProjectArrival(r, bodies) ==
    \E u \in Users, pid \in ProjectIds :
        \/ getProject(r, u, pid)
        \/ \E body \in bodies : updateProject(r, u, pid, body)
        \/ deleteProject(r, u, pid)

ProjectStep(r) ==
    \/ getProjectFindFirst(r)
    \/ updateProjectFindFirst(r)
    \/ updateProjectUpdate(r)
    \/ deleteProjectFindFirst(r)
    \/ deleteProjectDelete(r)

\* a request for the file routes arrives at slot r
FileArrival(r) ==
    \E u \in Users, pid \in ProjectIds :
        \/ getFiles(r, u, pid)
        \/ \E hasFile \in BOOLEAN :
               /\ nextFid <= MaxFiles
               /\ uploadFile(r, u, pid, hasFile)
        \/ \E fid \in FileIds : deleteFile(r, u, pid, fid)
        \/ \E fid \in FileIds : downloadFile(r, u, pid, fid)

FileStep(r) ==
    \/ getFilesFindProject(r)
    \/ getFilesFindMany(r)
    \/ uploadFileFindProject(r)
    \/ uploadFileCreate(r)
    \/ deleteFileFindProject(r)
    \/ deleteFileFindFile(r)
    \/ deleteFileUnlink(r)
    \/ deleteFileDelete(r)
    \/ downloadFileFindProject(r)
    \/ downloadFileFindFile(r)

\* one chat client at a time: every request is answered before the next
NextSeq ==
    \/ ChatArrival("r1", MessageInputs, LimitInputs)
    \/ ChatStep("r1")
    \/ Complete("r1")

SpecSeq == InitServer /\ [][NextSeq]_vars

\* two chat clients that take turns: a request arrives only when no other
\* is being handled, and a response stays in its slot until it is collected
OthersIdle(r) == \A t \in Reqs \ {r} : req[t].pc \in {"idle", "done"}

PairTexts == {<<" ">>, <<" ", "h">>}
PairLimits == {NoLimit}

NextPair ==
    \E r \in Reqs :
        \/ /\ OthersIdle(r)
           /\ ChatArrival(r, PairTexts, PairLimits)
        \/ ChatStep(r)
        \/ Complete(r)

SpecPair == InitServer /\ [][NextPair]_vars

\* one client at a time on all routes that name a project
IsoTexts == {<<" ">>, <<"h">>}
IsoBodies == {[NoBody EXCEPT !.systemPrompt = <<"h">>]}

NextIso ==
    \/ ChatArrival("r1", IsoTexts, PairLimits)
    \/ ProjectArrival("r1", IsoBodies)
    \/ FileArrival("r1")
    \/ ChatStep("r1")
    \/ ProjectStep("r1")
    \/ FileStep("r1")
    \/ Complete("r1")

SpecIso == InitServer /\ [][NextIso]_vars

\* one client at a time on the project routes, from an empty database
NextProjects ==
    \/ CreateArrival("r1", BodyInputs)
    \/ ProjectArrival("r1", BodyInputs)
    \/ createProjectCreate("r1")
    \/ ProjectStep("r1")
    \/ Complete("r1")

SpecProjects == Init /\ [][NextProjects]_vars

\* the tables InitServer starts from
ServerStarted ==
    /\ projects = ServerProjects /\ nextPid = 3
    /\ messages = <<>> /\ files = <<>> /\ disk = {}
    /\ nextMid = 1 /\ nextFid = 1
    /\ Idle

\* ------------------------------------------------------- behind the router
\* One client at a time on all routes; router.use(authMiddleware) runs before
\* the controller of every project, chat and file route.
AuthHeaders == {Undefined,
                <<"Basic", " ", "jwt-u1">>,
                <<"Bearer">>,
                <<"Bearer", " ">>,
                <<"Bearer", " ", " ", "jwt-u1">>,
                <<"Bearer", " ", "garbage">>,
                <<"Bearer", " ", "jwt-expired">>,
                <<"Bearer", " ", "jwt-u0">>,
                <<"Bearer", " ", "jwt-u1">>}

AuthTexts == {<<"h">>}
AuthBodies == {[NoBody EXCEPT !.name = <<"h">>]}

\* the request of slot r has passed authMiddleware: next() calls the
\* controller with req.user set
Routed(r) == req[r].pc = "idle" /\ req[r].auth = "passed"
AsUser(r) == req'[r].user = req[r].user

InitAuth ==
    /\ projects = {[id |-> 1, userId |-> "u1", name |-> <<"h">>,
                    description |-> Null, systemPrompt |-> Pirate]}
    /\ messages = <<>>
    /\ files = <<>>
    /\ disk = {}
    /\ nextPid = 2
    /\ nextMid = 1
    /\ nextFid = 1
    /\ apiKey = TRUE
    /\ users = ServerUsers
    /\ req = [r \in Reqs |-> IdleReq]
    /\ pre = [r \in Reqs |-> NoSnapshot]
    /\ latest = "none"
    /\ okSends = 0
    /\ anyFailed = FALSE

NextAuth ==
    \/ \E authHeader \in AuthHeaders : authMiddleware("r1", authHeader)
    \/ authMiddlewareFindUser("r1")
    \/ Routed("r1") /\ ChatArrival("r1", AuthTexts, PairLimits) /\ AsUser("r1")
    \/ Routed("r1") /\ CreateArrival("r1", AuthBodies) /\ AsUser("r1")
    \/ Routed("r1") /\ ProjectArrival("r1", AuthBodies) /\ AsUser("r1")
    \/ Routed("r1") /\ FileArrival("r1") /\ AsUser("r1")
    \/ ChatStep("r1")
    \/ createProjectCreate("r1")
    \/ ProjectStep("r1")
    \/ FileStep("r1")
    \/ Complete("r1")

SpecAuth == InitAuth /\ [][NextAuth]_vars

\* ------------------------------------------------------------------ a chat
\* One conversation of user u1 and one client that sends message after
\* message, each request answered before the next is sent.
ChatText == <<" ", "h", "i">>

InitChat ==
    /\ projects = {[id |-> 1, userId |-> "u1", name |-> <<"h">>,
                    description |-> Null, systemPrompt |-> DefaultSystemPrompt]}
    /\ messages = <<>>
    /\ files = <<>>
    /\ disk = {}
    /\ nextPid = 2
    /\ nextMid = 1
    /\ nextFid = 1
    /\ apiKey = TRUE
    /\ users = ServerUsers
    /\ req = [r \in Reqs |-> IdleReq]
    /\ pre = [r \in Reqs |-> NoSnapshot]
    /\ latest = "none"
    /\ okSends = 0
    /\ anyFailed = FALSE

NextChat ==
    \/ /\ nextMid + 1 <= MaxChatTurns
       /\ sendMessage("r1", "u1", 1, ChatText)
    \/ sendMessageFindProject("r1")
    \/ sendMessageSaveUser("r1")
    \/ sendMessageHistory("r1")
    \/ \E outcome \in ModelOutcomes : sendMessageGenerate("r1", outcome)
    \/ sendMessageSaveAssistant("r1")
    \/ Complete("r1")

SpecChat == InitChat /\ [][NextChat]_vars

\* ------------------------------------------------------------------ a race
\* Two clients of user u1 on conversation 1 whose requests overlap: the
\* handlers interleave at their awaits, nothing serialises them.
RaceText == <<"h">>

RaceArrival(r) ==
    \/ /\ nextMid + 1 <= MaxMessages
       /\ sendMessage(r, "u1", 1, RaceText)
    \/ getMessages(r, "u1", 1, NoLimit)
    \/ clearMessages(r, "u1", 1)

NextRace ==
    \E r \in Reqs :
        \/ RaceArrival(r)
        \/ ChatStep(r)
        \/ Complete(r)

SpecRace == InitChat /\ [][NextRace]_vars

\* two clients of user u1 that only send messages to conversation 1
NextRaceSend ==
    \E r \in Reqs :
        \/ /\ nextMid + 1 <= MaxMessages
           /\ sendMessage(r, "u1", 1, RaceText)
        \/ sendMessageFindProject(r)
        \/ sendMessageSaveUser(r)
        \/ sendMessageHistory(r)
        \/ \E outcome \in ModelOutcomes : sendMessageGenerate(r, outcome)
        \/ sendMessageSaveAssistant(r)
        \/ Complete(r)

SpecRaceSend == InitChat /\ [][NextRaceSend]_vars

\* the two racing clients, with a database that can fail under sendMessage
NextFault ==
    \E r \in Reqs :
        \/ RaceArrival(r)
        \/ ChatStep(r)
        \/ \E error \in StorageErrors : sendMessageStorageFailure(r, error)
        \/ Complete(r)

SpecFault == InitServer /\ [][NextFault]_vars

\* --------------------------------------------------------------- deletion
\* Two clients of user u1 on conversation 1 whose requests overlap: messages,
\* uploads and the deletion of the conversation.
DeleteArrival(r) ==
    \/ /\ nextMid + 1 <= MaxMessages
       /\ sendMessage(r, "u1", 1, RaceText)
    \/ /\ nextFid <= MaxFiles
       /\ uploadFile(r, "u1", 1, TRUE)
    \/ deleteProject(r, "u1", 1)

NextDelete ==
    \E r \in Reqs :
        \/ DeleteArrival(r)
        \/ sendMessageFindProject(r)
        \/ sendMessageSaveUser(r)
        \/ sendMessageHistory(r)
        \/ \E outcome \in ModelOutcomes : sendMessageGenerate(r, outcome)
        \/ sendMessageSaveAssistant(r)
        \/ uploadFileFindProject(r)
        \/ uploadFileCreate(r)
        \/ deleteProjectFindFirst(r)
        \/ deleteProjectDelete(r)
        \/ Complete(r)

SpecDelete == InitServer /\ [][NextDelete]_vars

\* ---------------------------------------------------------------- updates
\* One client at a time: messages and uploads of u1 on conversation 1, and
\* updates of the conversations by both users.
UpdateBodies == BodyInputs \cup {[NoBody EXCEPT !.name = Null],
                                 [NoBody EXCEPT !.description = Null,
                                                !.systemPrompt = <<"h">>]}

NextUpdate ==
    \/ /\ nextMid + 1 <= MaxMessages
       /\ sendMessage("r1", "u1", 1, RaceText)
    \/ /\ nextFid <= MaxFiles
       /\ uploadFile("r1", "u1", 1, TRUE)
    \/ \E u \in Users, pid \in ProjectIds, body \in UpdateBodies :
           updateProject("r1", u, pid, body)
    \/ sendMessageFindProject("r1")
    \/ sendMessageSaveUser("r1")
    \/ sendMessageHistory("r1")
    \/ \E outcome \in ModelOutcomes : sendMessageGenerate("r1", outcome)
    \/ sendMessageSaveAssistant("r1")
    \/ uploadFileFindProject("r1")
    \/ uploadFileCreate("r1")
    \/ updateProjectFindFirst("r1")
    \/ updateProjectUpdate("r1")
    \/ Complete("r1")

SpecUpdate == InitServer /\ [][NextUpdate]_vars

\* ---------------------------------------------------------------- accounts
\* Two clients on POST /api/auth/register, their requests interleaved at
\* every await.
ValidPassword == <<"s", "e", "c", "r", "e", "t">>
RegisterBodies ==
    {[NoBody EXCEPT !.password = ValidPassword, !.name = <<"h">>],
     [NoBody EXCEPT !.email = <<"h">>, !.password = ValidPassword, !.name = <<"h">>],
     [NoBody EXCEPT !.email = <<"n", "@", "b", ".", "c">>, !.password = <<"s">>,
                    !.name = <<"h">>],
     [NoBody EXCEPT !.email = <<"n", "@", "b", ".", "c">>,
                    !.password = ValidPassword, !.name = <<"h", " ">>],
     [NoBody EXCEPT !.email = <<"N", "@", "b", ".", "c">>,
                    !.password = ValidPassword, !.name = <<"h">>],
     [NoBody EXCEPT !.email = <<"A", "@", "b", ".", "c">>,
                    !.password = ValidPassword, !.name = <<"h">>]}

NextRegister ==
    \E r \in Reqs :
        \/ /\ Len(users) < MaxUsers
           /\ \E body \in RegisterBodies : register(r, body)
        \/ registerFindUnique(r)
        \/ registerGenSalt(r)
        \/ registerHash(r)
        \/ registerCreate(r)
        \/ Complete(r)

SpecRegister == InitServer /\ [][NextRegister]_vars

\* ================================================================== claims
Sending(r) == req[r].op = "sendMessage"

\* C1: when sendMessage has read the context and the conversation holds N
\* turns, the context is all N turns if N <= 20 and the 20 most recently
\* created turns if N > 20, oldest first
C1_ContextIsMostRecentWindow ==
    \A r \in Reqs :
        (Sending(r) /\ req[r].pc = "generate") =>
            LET turns == MessagesOf(messages, req[r].projectId)
                N == Len(turns)
            IN  req[r].history =
                    IF N <= ContextWindow THEN turns
                    ELSE SubSeq(turns, N - ContextWindow + 1, N)

\* C2: for every sendMessage that reaches the model, the last element of the
\* context is the user turn this request appended
C2_LastContextTurnIsOwnUserTurn ==
    \A r \in Reqs :
        (Sending(r) /\ req[r].gen.called) =>
            /\ req[r].history # <<>>
            /\ req[r].history[Len(req[r].history)] = req[r].userMessage

\* C3: after N sendMessage requests on a conversation that started empty, run
\* one after another and all successful, the conversation holds 2*N turns that
\* alternate user, assistant, each user turn directly followed by the
\* assistant turn of the same request
C3_TwoTurnsPerSuccessfulCall ==
    (Idle /\ ~anyFailed) =>
        LET turns == MessagesOf(messages, 1)
        IN  /\ Len(turns) = 2 * okSends
            /\ \A i \in 1..okSends :
                   /\ turns[2 * i - 1].role = "user"
                   /\ turns[2 * i].role = "assistant"
                   /\ turns[2 * i].id = turns[2 * i - 1].id + 1
            /\ \A r \in Reqs :
                   (Sending(r) /\ req[r].pc = "done" /\ req[r].resp.status = 200) =>
                       /\ turns[Len(turns) - 1] = req[r].userMessage
                       /\ turns[Len(turns)] = req[r].resp.data.assistantMessage

C3_Witness ==
    /\ Idle /\ ~anyFailed
    /\ 2 * okSends > ContextWindow
    /\ req["r1"].pc = "done"

\* C4: if the model call fails, sendMessage answers 503 service unavailable,
\* and the request has added exactly one turn, its user turn
ModelFailed(r) == Sending(r) /\ req[r].pc = "done" /\ req[r].gen.error # NoError

C4_ModelFailureKeepsUserTurnOnly ==
    \A r \in Reqs :
        ModelFailed(r) =>
            /\ req[r].resp.status = 503
            /\ req[r].resp = ServiceUnavailable
            /\ messages = Append(pre[r].messages, req[r].userMessage)
            /\ req[r].userMessage.role = "user"
            /\ req[r].userMessage.projectId = req[r].projectId

C4_Witness ==
    \E r \in Reqs :
        /\ ModelFailed(r)
        /\ req[r].gen.called
        /\ req[r].gen.error.message = <<"GEMINI", ": ", "fetch failed">>
        /\ pre[r].messages # <<>>

\* C5: sendMessage with a missing, empty or whitespace-only message answers
\* 400 and creates no turn; the ownership lookup, the store and the model are
\* not touched
AllWhitespace(v) == v = Undefined \/ \A i \in 1..Len(v) : v[i] = " "

C5_BlankMessageRejected ==
    \A r \in Reqs :
        (Sending(r) /\ req[r].pc # "idle" /\ AllWhitespace(req[r].message)) =>
            /\ req[r].pc = "done"
            /\ req[r].resp.status = 400
            /\ req[r].resp.message = <<"Message is required">>
            /\ req[r].project = NoProject /\ ~req[r].existed
            /\ req[r].userMessage = NoMessage
            /\ ~req[r].gen.called
            /\ Snapshot = pre[r]

C5_Witness ==
    \E r \in Reqs :
        /\ Sending(r) /\ req[r].pc = "done"
        /\ req[r].message = <<" ", " ">>
        /\ FindOwnedProject(req[r].projectId, req[r].user) # NoProject
        /\ messages # <<>>

\* C9 as claimed: the content of the persisted user turn is identical to the
\* text the caller submitted
C9_ContentIdenticalToSubmitted ==
    \A r \in Reqs :
        (Sending(r) /\ req[r].userMessage # NoMessage) =>
            req[r].userMessage.content = req[r].message

\* content is text without its leading and trailing whitespace
Stripped(text, content) ==
    /\ \E i \in 1..(Len(text) + 1), j \in 0..Len(text) :
           /\ content = SubSeq(text, i, j)
           /\ \A k \in 1..(i - 1) : text[k] = " "
           /\ \A k \in (j + 1)..Len(text) : text[k] = " "
    /\ content # <<>> => (content[1] # " " /\ content[Len(content)] # " ")

Stored(m) == \E i \in 1..Len(messages) : messages[i] = m

\* C9: the content of the persisted user turn is the submitted text without
\* its leading and trailing whitespace; the row is returned by sendMessage and
\* by getMessages as it is stored
C9_ContentIsTrimmedText ==
    \A r \in Reqs :
        /\ (Sending(r) /\ req[r].userMessage # NoMessage) =>
               /\ Stripped(req[r].message, req[r].userMessage.content)
               /\ Stored(req[r].userMessage)
        /\ (Sending(r) /\ req[r].pc = "done" /\ req[r].resp.status = 200) =>
               req[r].resp.data.userMessage = req[r].userMessage
        /\ (req[r].op = "getMessages" /\ req[r].pc = "done"
               /\ req[r].resp.status = 200) =>
               \A i \in 1..Len(req[r].resp.data.messages) :
                   Stored(req[r].resp.data.messages[i])

C9_Witness ==
    \E r \in Reqs :
        /\ Sending(r) /\ req[r].pc = "done" /\ req[r].resp.status = 200
        /\ req[r].message = <<" ", "h">>
        /\ req[r].resp.data.userMessage.content = <<"h">>

\* C10: the live message sent to the model is "[System: <instruction>]\n\n
\* User: <text of the last context turn>" when the system instruction of the
\* conversation is non-empty, and the text of the last context turn when it
\* is empty
C10_LiveMessage ==
    \A r \in Reqs :
        (Sending(r) /\ req[r].gen.called) =>
            LET last == req[r].history[Len(req[r].history)]
                instruction == (CHOOSE p \in pre[r].projects :
                                    p.id = req[r].projectId).systemPrompt
            IN  req[r].gen.prompt =
                    IF instruction # <<>>
                    THEN <<"[System: ">> \o instruction \o <<"]\n\nUser: ">>
                         \o last.content
                    ELSE last.content

C10_Witness ==
    \E r \in Reqs :
        /\ Sending(r) /\ req[r].gen.called
        /\ pre[r].messages = <<>>
        /\ req[r].message = <<"h", "i">>
        /\ req[r].gen.history = <<>>
        /\ req[r].gen.prompt =
               <<"[System: ", "You are a pirate.", "]\n\nUser: ", "h", "i">>

\* the caller of the request in slot r named a project of somebody else
Foreign(r) ==
    \E p \in pre[r].projects : p.id = req[r].projectId /\ p.userId # req[r].user

TargetOps == {"getMessages", "sendMessage", "clearMessages", "getProject",
              "updateProject", "deleteProject", "getFiles", "uploadFile",
              "deleteFile", "downloadFile"}

\* the request in slot r fails the validation that precedes the ownership query
Invalid(r) ==
    \/ Sending(r) /\ AllWhitespace(req[r].message)
    \/ req[r].op = "uploadFile" /\ req[r].file = NoFile

NothingDoneFor(r) ==
    /\ req[r].resp.data = NoData
    /\ ~req[r].gen.called
    /\ Snapshot = pre[r]

ChatOps == {"getMessages", "sendMessage", "clearMessages"}

SameRequest(r, t) ==
    /\ req[r].op = req[t].op
    /\ req[r].user = req[t].user
    /\ req[r].message = req[t].message
    /\ req[r].limit = req[t].limit

C7_ForeignLooksLikeMissing ==
    \A r, t \in Reqs :
        (/\ req[r].op \in ChatOps /\ req[r].pc = "done" /\ req[t].pc = "done"
         /\ SameRequest(r, t)
         /\ Foreign(r)
         /\ ~ProjectExists(req[t].projectId)) =>
            req[r].resp = req[t].resp

C7_Witness ==
    \E r, t \in Reqs :
        /\ req[r].op = "sendMessage" /\ req[r].pc = "done" /\ req[t].pc = "done"
        /\ SameRequest(r, t)
        /\ req[r].message = <<" ", "h">>
        /\ Foreign(r)
        /\ MessagesOf(messages, req[r].projectId) # <<>>
        /\ ~ProjectExists(req[t].projectId)

\* C8: clearMessages by the owner on a conversation of K turns deletes those
\* K turns and no other, reports K and leaves the conversation empty; the
\* same request repeated right after it deletes nothing and reports 0
Cleared(r) ==
    req[r].op = "clearMessages" /\ req[r].pc = "done" /\ req[r].resp.status = 200

Reports(r, k) ==
    req[r].resp.message =
        <<"Cleared ", <<"0", "1", "2", "3", "4", "5", "6", "7", "8", "9">>[k + 1],
          " messages">>

C8_ClearDeletesAndReportsK ==
    \A r \in Reqs :
        /\ (Cleared(r) /\ latest = r) =>
               /\ Reports(r, Len(MessagesOf(pre[r].messages, req[r].projectId)))
               /\ MessagesOf(messages, req[r].projectId) = <<>>
               /\ messages = SelectSeq(pre[r].messages,
                                 LAMBDA m : m.projectId # req[r].projectId)
        /\ \A t \in Reqs :
               (Cleared(r) /\ Cleared(t) /\ req[t].after = r
                   /\ req[t].projectId = req[r].projectId) =>
                   /\ Reports(t, 0)
                   /\ messages = pre[t].messages

C8_Witness ==
    \E r, t \in Reqs :
        /\ Cleared(r) /\ Cleared(t)
        /\ req[t].after = r /\ req[t].projectId = req[r].projectId
        /\ Reports(r, 2)
        /\ Reports(t, 0)
        /\ messages # <<>>

\* C11: for a context of k >= 1 turns handed to the model, the history list
\* of the chat session has exactly k - 1 entries, the i-th entry carrying the
\* unchanged text of the i-th context turn and the tag model if that turn's
\* role is assistant, user otherwise; the last context turn is not in the
\* list, its text goes out in the live message only
C11_HistoryIsContextWithoutLast ==
    \A r \in Reqs :
        (Sending(r) /\ req[r].gen.called) =>
            LET context == req[r].history
                k == Len(context)
                list == req[r].gen.history
            IN  /\ k >= 1
                /\ Len(list) = k - 1
                /\ \A i \in 1..(k - 1) :
                       /\ list[i].text = context[i].content
                       /\ list[i].role = IF context[i].role = "assistant"
                                         THEN "model" ELSE "user"
                /\ \E n \in 0..Len(req[r].gen.prompt) :
                       SubSeq(req[r].gen.prompt, n + 1, Len(req[r].gen.prompt))
                           = context[k].content

C11_Witness ==
    \E r \in Reqs :
        /\ Sending(r) /\ req[r].gen.called
        /\ Len(req[r].history) = 5
        /\ Len(req[r].gen.history) = 4
        /\ req[r].gen.history[2].role = "model"
        /\ req[r].gen.history[3].role = "user"

\* C12: a sendMessage answered 200 returns the two turns this request
\* appended: userMessage is the user turn it created, assistantMessage the
\* assistant turn it created, whose content is the reply of the model; the
\* user turn was appended before the assistant turn
Succeeded(r) == Sending(r) /\ req[r].pc = "done" /\ req[r].resp.status = 200

C12_ReturnsTheTwoAppendedTurns ==
    \A r \in Reqs :
        Succeeded(r) =>
            LET userMessage == req[r].resp.data.userMessage
                assistantMessage == req[r].resp.data.assistantMessage
            IN  /\ messages = pre[r].messages \o <<userMessage, assistantMessage>>
                /\ userMessage.role = "user"
                /\ userMessage.content = Trim(req[r].message)
                /\ assistantMessage.role = "assistant"
                /\ assistantMessage.content = req[r].gen.text
                /\ req[r].gen.ok /\ req[r].gen.text \in Replies
                /\ userMessage.projectId = req[r].projectId
                /\ assistantMessage.projectId = req[r].projectId
                /\ userMessage.id # assistantMessage.id
                /\ \A i \in 1..Len(pre[r].messages) :
                       pre[r].messages[i].id \notin {userMessage.id, assistantMessage.id}

C12_Witness ==
    \E r \in Reqs :
        /\ Succeeded(r)
        /\ pre[r].messages # <<>>
        /\ req[r].resp.data.assistantMessage.content = <<"o", "k">>
        /\ req[r].resp.data.userMessage.content = <<"h", "i">>

\* C13: deleteProject by the owner removes the conversation, all of its
\* turns and all of its attachment records: once it has answered 200 no turn
\* and no attachment record refers to the deleted conversation, and the other
\* conversations, their turns and their attachment records are unchanged
Deleted(r) ==
    req[r].op = "deleteProject" /\ req[r].pc = "done" /\ req[r].resp.status = 200

C13_DeleteProjectCascades ==
    \A r \in Reqs :
        (Deleted(r) /\ latest = r) =>
            LET pid == req[r].projectId
            IN  /\ \E p \in pre[r].projects : p.id = pid /\ p.userId = req[r].user
                /\ ~ProjectExists(pid)
                /\ \A i \in 1..Len(messages) : messages[i].projectId # pid
                /\ \A i \in 1..Len(files) : files[i].projectId # pid
                /\ projects = {p \in pre[r].projects : p.id # pid}
                /\ messages = SelectSeq(pre[r].messages, LAMBDA m : m.projectId # pid)
                /\ files = SelectSeq(pre[r].files, LAMBDA f : f.projectId # pid)

C13_Witness ==
    \E r \in Reqs :
        /\ Deleted(r) /\ latest = r
        /\ MessagesOf(pre[r].messages, req[r].projectId) # <<>>
        /\ FilesOf(pre[r].files, req[r].projectId) # <<>>
        /\ messages # <<>>
        /\ projects # {}

\* C14: getMessages by the owner returns the turns of the conversation oldest
\* first, at most limit of them and all of them when fewer than limit exist,
\* where limit is a positive integer: the query parameter when one is given,
\* 50 when it is absent or not a number
Listed(r) ==
    req[r].op = "getMessages" /\ req[r].pc = "done" /\ req[r].resp.status = 200

ClaimedLimit(limit) == IF limit.kind = "int" THEN limit.n ELSE 50

\* s is t with some rows left out, in the order of t
RECURSIVE IsSubSeq(_, _)
IsSubSeq(s, t) ==
    IF s = <<>> THEN TRUE
    ELSE IF t = <<>> THEN FALSE
    ELSE IF Head(s) = Head(t) THEN IsSubSeq(Tail(s), Tail(t))
    ELSE IsSubSeq(s, Tail(t))

C14_AtMostLimitOldestFirst ==
    \A r \in Reqs :
        Listed(r) =>
            LET turns == MessagesOf(messages, req[r].projectId)
                limit == ClaimedLimit(req[r].limit)
                rows == req[r].resp.data.messages
            IN  /\ limit >= 1
                /\ IsSubSeq(rows, turns)
                /\ Len(rows) = Min(limit, Len(turns))

\* C15: the controller of a project, chat or file route runs only for a
\* request whose Authorization header is Bearer followed by a token that
\* verifies and belongs to a user who still exists; a request with no header,
\* a malformed header, an invalid or expired token or the token of a deleted
\* user is answered 401, its controller is not run and no state changes
IssuedTo(token) ==
    IF token = "jwt-u1" THEN "u1" ELSE IF token = "jwt-u2" THEN "u2" ELSE "nobody"

Authentic(authHeader, u) ==
    /\ u \in Users
    /\ authHeader # Undefined
    /\ Len(authHeader) >= 3
    /\ authHeader[1] = "Bearer" /\ authHeader[2] = " "
    /\ IssuedTo(authHeader[3]) = u

ControllerRan(r) == req[r].op # "none"

C15_ControllersBehindAuth ==
    \A r \in Reqs :
        /\ ControllerRan(r) => Authentic(req[r].authHeader, req[r].user)
        /\ (req[r].pc = "done" /\ ~\E u \in Users : Authentic(req[r].authHeader, u)) =>
               /\ req[r].resp.status = 401
               /\ req[r].resp.data = NoData
               /\ ~ControllerRan(r)
               /\ Snapshot = pre[r]

C15_Witness ==
    \E r \in Reqs :
        /\ req[r].pc = "done" /\ req[r].resp.status = 401
        /\ req[r].authHeader = <<"Bearer", " ", "jwt-u0">>
        /\ messages # <<>> /\ files # <<>> /\ Cardinality(projects) = 2

\* C16: in every reachable state every turn in the store has role user or
\* assistant; a turn enters the store only in a step of sendMessage, with
\* role user and the text of the caller, or with role assistant and the
\* reply of the model
Roles == {"user", "assistant"}

RolesAreUserOrAssistant ==
    \A i \in 1..Len(messages) : messages[i].role \in Roles

CreatedBySendMessage ==
    \A i \in 1..Len(messages') :
        (\A k \in 1..Len(messages) : messages[k].id # messages'[i].id) =>
            \E r \in Reqs :
                /\ Sending(r)
                /\ messages'[i].projectId = req[r].projectId
                /\ \/ /\ req[r].pc = "saveUser"
                      /\ messages'[i].role = "user"
                      /\ messages'[i].content = Trim(req[r].message)
                   \/ /\ req[r].pc = "saveAssistant"
                      /\ messages'[i].role = "assistant"
                      /\ messages'[i].content = req[r].gen.text

C16_RolesAndCreation ==
    []RolesAreUserOrAssistant /\ [][CreatedBySendMessage]_vars

C16_Witness ==
    /\ \E i, k \in 1..Len(messages) :
           messages[i].role = "user" /\ messages[k].role = "assistant"
    /\ files # <<>>
    /\ \E r \in Reqs : req[r].op = "updateProject" /\ req[r].pc = "done"

\* C17: no step of the system changes the role, the content or the parent
\* conversation of a turn that exists before and after the step, nor its
\* place in the creation order; a turn only ever appears (sendMessage) or
\* disappears (clearMessages, deleteProject)
Ids(tbl) == {tbl[i].id : i \in 1..Len(tbl)}

TurnsUntouched ==
    LET kept == Ids(messages) \cap Ids(messages')
    IN  SelectSeq(messages, LAMBDA m : m.id \in kept)
            = SelectSeq(messages', LAMBDA m : m.id \in kept)

C17_TurnsImmutable == [][TurnsUntouched]_vars

C17_Witness ==
    \E r \in Reqs :
        /\ Cleared(r)
        /\ messages # <<>>
        /\ Len(pre[r].messages) > Len(messages)
        /\ \E i \in 1..Len(messages) : messages[i].role = "assistant"

\* C18: under any interleaving of a sendMessage with other requests on the
\* same conversation, the context handed to prompt assembly holds at least
\* one turn, so the current utterance is never undefined
C18_ContextNeverEmpty ==
    \A r \in Reqs :
        (Sending(r) /\ req[r].pc = "generate") => req[r].history # <<>>

\* C19: two sendMessage requests that race on one conversation and both get
\* a reply of the model: each has appended one user turn, called the model
\* once and appended one assistant turn after its own user turn, four new
\* turns in all when both arrived on the same store; nothing orders the two
\* requests, so both user turns can precede both assistant turns and the
\* assistant turns can come in either order
Position(m) == CHOOSE i \in 1..Len(messages) : messages[i] = m

AppendedOwnPair(r) ==
    LET userMessage == req[r].resp.data.userMessage
        assistantMessage == req[r].resp.data.assistantMessage
    IN  /\ userMessage = req[r].userMessage
        /\ userMessage.role = "user" /\ assistantMessage.role = "assistant"
        /\ Stored(userMessage) /\ Stored(assistantMessage)
        /\ Position(userMessage) < Position(assistantMessage)
        /\ userMessage.id \notin Ids(pre[r].messages)
        /\ assistantMessage.id \notin Ids(pre[r].messages)
        /\ Cardinality({i \in 1..Len(messages) :
               messages[i].id \in {userMessage.id, assistantMessage.id}}) = 2
        /\ req[r].gen.called /\ req[r].gen.ok
        /\ assistantMessage.content = req[r].gen.text

RacingPairsAppended ==
    \A r, t \in Reqs :
        /\ Succeeded(r) => AppendedOwnPair(r)
        /\ (r # t /\ Succeeded(r) /\ Succeeded(t)) =>
               /\ Cardinality({req[r].resp.data.userMessage.id,
                               req[r].resp.data.assistantMessage.id,
                               req[t].resp.data.userMessage.id,
                               req[t].resp.data.assistantMessage.id}) = 4
               /\ pre[r].messages = pre[t].messages =>
                      /\ Len(messages) = Len(pre[r].messages) + 4
                      /\ SubSeq(messages, 1, Len(pre[r].messages)) = pre[r].messages

\* the model is called in one step of a request, and its result is kept
CalledOnce ==
    \A r \in Reqs :
        /\ (~req[r].gen.called /\ req'[r].gen.called) =>
               req[r].pc = "generate" /\ req'[r].pc \in {"saveAssistant", "done"}
        /\ (req[r].gen.called /\ req'[r].gen.called) => req'[r].gen = req[r].gen

C19_RacingSendsAppendFourTurns ==
    []RacingPairsAppended /\ [][CalledOnce]_vars

C19_Witness ==
    \E r, t \in Reqs :
        /\ r # t /\ Succeeded(r) /\ Succeeded(t)
        /\ pre[r].messages = pre[t].messages
        /\ messages = pre[r].messages \o
               <<req[r].resp.data.userMessage, req[t].resp.data.userMessage,
                 req[t].resp.data.assistantMessage, req[r].resp.data.assistantMessage>>

\* C20: sendMessage answers 503 service unavailable if and only if the
\* failure arose in the call of the external model; a failure while the user
\* turn is persisted, the context is read or the assistant turn is persisted
\* is answered as a generic server failure, never as 503
ModelCallFailed(r) ==
    /\ req[r].gen.error # NoError
    /\ req[r].gen.called \/ ~apiKey

StorageFailed(r) == req[r].failedAt \in {"saveUser", "history", "saveAssistant"}

C20_UnavailableIffModelCallFailed ==
    \A r \in Reqs :
        (Sending(r) /\ req[r].pc = "done") =>
            /\ req[r].resp.status = 503 <=> ModelCallFailed(r)
            /\ StorageFailed(r) => req[r].resp.status = 500

\* C21: within one sendMessage the model is invoked only after the user turn
\* was persisted and the context was read back, and the assistant turn is
\* persisted only after the model has returned a reply; when persisting the
\* user turn fails the request ends without a model call and without having
\* created a turn
PipelineState ==
    \A r \in Reqs :
        Sending(r) =>
            /\ req[r].pc \in {"generate", "saveAssistant"} =>
                   req[r].userMessage # NoMessage
            /\ req[r].gen.called =>
                   req[r].userMessage # NoMessage /\ req[r].history # <<>>
            /\ req[r].pc = "saveAssistant" => req[r].gen.called /\ req[r].gen.ok
            /\ req[r].failedAt = "saveUser" =>
                   /\ req[r].pc = "done"
                   /\ req[r].resp.status = 500
                   /\ req[r].userMessage = NoMessage
                   /\ req[r].gen = NoGen
                   /\ req[r].resp.data = NoData

PipelineSteps ==
    \A r \in Reqs :
        /\ (req[r].pc = "history" /\ req'[r].pc = "generate") =>
               /\ req[r].userMessage.id \in 1..(nextMid - 1)
               /\ req'[r].history = FindManyMessages(req[r].projectId, 20)
        /\ (~req[r].gen.called /\ req'[r].gen.called) => req[r].pc = "generate"
        /\ (\E i \in 1..Len(messages') :
                /\ messages'[i].id \notin Ids(messages)
                /\ messages'[i].role = "assistant"
                /\ req[r].pc = "saveAssistant" /\ req'[r].pc = "done") =>
               /\ req[r].gen.ok
               /\ messages' = Append(messages, req'[r].resp.data.assistantMessage)
               /\ req'[r].resp.data.assistantMessage.content = req[r].gen.text
        /\ (req[r].pc = "saveUser" /\ req'[r].failedAt = "saveUser") =>
               messages' = messages /\ nextMid' = nextMid

C21_PipelineOrder == []PipelineState /\ [][PipelineSteps]_vars

C21_Witness ==
    \E r \in Reqs :
        /\ Sending(r) /\ req[r].failedAt = "saveUser"
        /\ pre[r].messages # <<>>
        /\ \E t \in Reqs : Succeeded(t)

\* C22: no retry and no deduplication: a sendMessage request calls the model
\* at most once and appends at most one user turn; when a request fails at
\* the model call and the caller sends the same text again and that request
\* succeeds, the conversation has three new turns, user, user, assistant, the
\* two user turns with equal content
OneUserTurnPerRequest ==
    \A i \in 1..Len(messages') :
        (messages'[i].id \notin Ids(messages) /\ messages'[i].role = "user") =>
            \E r \in Reqs :
                /\ Sending(r) /\ req[r].pc = "saveUser"
                /\ req[r].userMessage = NoMessage
                /\ req'[r].userMessage = messages'[i]
                /\ req'[r].pc = "history"
                /\ messages' = Append(messages, messages'[i])

Resubmitted(r, t) ==
    /\ r # t
    /\ ModelFailed(r) /\ req[r].gen.called
    /\ Succeeded(t)
    /\ req[t].after = r
    /\ req[t].user = req[r].user
    /\ req[t].projectId = req[r].projectId
    /\ req[t].message = req[r].message

ResubmitGivesThreeTurns ==
    \A r, t \in Reqs :
        Resubmitted(r, t) =>
            LET first == req[r].userMessage
                second == req[t].resp.data.userMessage
                reply == req[t].resp.data.assistantMessage
            IN  /\ messages = pre[r].messages \o <<first, second, reply>>
                /\ first.role = "user" /\ second.role = "user"
                /\ reply.role = "assistant"
                /\ first.content = second.content
                /\ first.id # second.id

C22_NoRetryNoDeduplication ==
    []ResubmitGivesThreeTurns /\ [][CalledOnce /\ OneUserTurnPerRequest]_vars

C22_Witness ==
    \E r, t \in Reqs :
        /\ Resubmitted(r, t)
        /\ req[r].message = <<" ", "h">>
        /\ req[r].resp.status = 503
        /\ Len(messages) = 3

\* C23 as claimed: appending a turn to a conversation that does not exist
\* (deleted by a concurrent deleteProject after the ownership query of
\* sendMessage) fails with NotFound, and no turn is stored
AppendRefused(r) ==
    /\ Sending(r) /\ req[r].pc = "done"
    /\ req[r].failedAt \in {"saveUser", "saveAssistant"}
    /\ req[r].project # NoProject

Updating(r) ==
    /\ req[r].op = "updateProject" /\ req[r].pc = "done"
    /\ \E p \in pre[r].projects : p.id = req[r].projectId /\ p.userId = req[r].user

\* what a field holds after the body gave it the value v
Written(v, stored, blankIsNull) ==
    IF blankIsNull /\ (v = Null \/ AllWhitespace(v)) THEN stored = Null
    ELSE Stripped(v, stored)

C24_UpdateChangesGivenFieldsOnly ==
    \A r \in Reqs :
        Updating(r) =>
            LET old == CHOOSE p \in pre[r].projects : p.id = req[r].projectId
                body == req[r].body
            IN  /\ messages = pre[r].messages
                /\ files = pre[r].files
                /\ disk = pre[r].disk
                /\ {p \in projects : p.id # old.id}
                       = {p \in pre[r].projects : p.id # old.id}
                /\ \E new \in projects :
                       /\ new.id = old.id /\ new.userId = old.userId
                       /\ req[r].resp.status # 200 => new = old
                       /\ req[r].resp.status = 200 =>
                              /\ req[r].resp.data.project = new
                              /\ IF body.name = Undefined THEN new.name = old.name
                                 ELSE Written(body.name, new.name, FALSE)
                              /\ IF body.description = Undefined
                                 THEN new.description = old.description
                                 ELSE Written(body.description, new.description, TRUE)
                              /\ IF body.systemPrompt = Undefined
                                 THEN new.systemPrompt = old.systemPrompt
                                 ELSE Written(body.systemPrompt, new.systemPrompt, FALSE)

C24_Witness ==
    \E r \in Reqs :
        /\ Updating(r) /\ req[r].resp.status = 200
        /\ req[r].body = [NoBody EXCEPT !.description = <<"h", " ">>]
        /\ req[r].resp.data.project.description = <<"h">>
        /\ req[r].resp.data.project.systemPrompt = Pirate
        /\ MessagesOf(messages, req[r].projectId) # <<>>
        /\ FilesOf(files, req[r].projectId) # <<>>

\* C25: in every reachable state, under any interleaving of sendMessage and
\* clearMessages on a conversation, every assistant turn of the conversation
\* comes after the user turn its request created, so that at every point of
\* the conversation there are at least as many user turns as assistant turns
CountRole(turns, role) == Len(SelectSeq(turns, LAMBDA m : m.role = role))

C25_TurnsComeInPairs ==
    LET turns == MessagesOf(messages, 1)
    IN  \A n \in 0..Len(turns) :
            CountRole(SubSeq(turns, 1, n), "assistant")
                <= CountRole(SubSeq(turns, 1, n), "user")

\* C26: in every reachable state, for any interleaving of sendMessage,
\* uploadFile and deleteProject, every stored turn and every attachment
\* record refers to a conversation that exists; a sendMessage or uploadFile
\* that passed its ownership query before a concurrent deleteProject
\* completed leaves no turn and no attachment record of the deleted
\* conversation behind
Referenced(tbl) == {tbl[i].projectId : i \in 1..Len(tbl)}

PassedOwnership(r) ==
    /\ req[r].op \in {"sendMessage", "uploadFile"} /\ req[r].pc = "done"
    /\ req[r].project # NoProject

C26_ReferentialIntegrity ==
    /\ \A pid \in Referenced(messages) \cup Referenced(files) : ProjectExists(pid)
    /\ \A r \in Reqs :
           (PassedOwnership(r) /\ ~ProjectExists(req[r].projectId)) =>
               /\ MessagesOf(messages, req[r].projectId) = <<>>
               /\ FilesOf(files, req[r].projectId) = <<>>

C26_Witness ==
    \E r, t \in Reqs :
        /\ PassedOwnership(r) /\ req[r].op = "uploadFile"
        /\ req[r].resp.status = 400
        /\ req[t].op = "deleteProject" /\ req[t].pc = "done"
        /\ req[t].resp.status = 200
        /\ ~ProjectExists(req[r].projectId)

\* C27: after any sequence of createProject and updateProject calls every
\* stored conversation has a name with at least one non-whitespace
\* character; a createProject or updateProject whose name is blank is
\* answered with 400 and leaves the store unchanged
BlankNameRequest(r) ==
    /\ req[r].op \in {"createProject", "updateProject"} /\ req[r].pc = "done"
    /\ req[r].body.name # Undefined /\ AllWhitespace(req[r].body.name)
    /\ latest = r

C27_NamesNeverBlank ==
    /\ \A p \in projects : p.name # <<>> /\ ~AllWhitespace(p.name)
    /\ \A r \in Reqs :
           (BlankNameRequest(r) /\ req[r].resp.status # 404) =>
               /\ req[r].resp.status = 400
               /\ projects = pre[r].projects

\* C28: after any sequence of completed uploadFile, deleteFile and
\* deleteProject requests, a stored file exists in the uploads directory if
\* and only if an attachment record refers to it
NoRequestInProgress == \A r \in Reqs : req[r].pc \in {"idle", "done"}

StoredNames == {files[i].storedName : i \in 1..Len(files)}

C28_DiskMatchesRecords == NoRequestInProgress => disk = StoredNames

\* C29: under any interleaving of register requests no two accounts share
\* the same lower-cased email; of two concurrent registrations with the same
\* email exactly one creates an account and the other is answered with a 400
\* client error, never a 500, and is issued no token
Registering(r) == req[r].op = "register" /\ req[r].pc = "done"

AccountsWith(email) ==
    Len(SelectSeq(users, LAMBDA u : ToLowerCase(u.email) = ToLowerCase(email)))

\* both requests found no account with the email and went on to create one
RacedOnEmail(r, t) ==
    /\ r # t /\ Registering(r) /\ Registering(t)
    /\ req[r].hashedPassword # <<>> /\ req[t].hashedPassword # <<>>
    /\ ToLowerCase(req[r].body.email) = ToLowerCase(req[t].body.email)

Created(r) == req[r].resp.status = 201 /\ req[r].resp.data.kind = "registered"

RefusedAsClientError(r) == req[r].resp.status = 400 /\ req[r].resp.data = NoData

C29_EmailsUniqueUnderRace ==
    /\ \A i, j \in 1..Len(users) :
           ToLowerCase(users[i].email) = ToLowerCase(users[j].email) => i = j
    /\ \A r \in Reqs : Registering(r) => Created(r) \/ RefusedAsClientError(r)
    /\ \A r, t \in Reqs :
           RacedOnEmail(r, t) =>
               /\ AccountsWith(req[r].body.email) = 1
               /\ \/ Created(r) /\ RefusedAsClientError(t)
                  \/ Created(t) /\ RefusedAsClientError(r)

C29_Witness ==
    \E r, t \in Reqs :
        /\ RacedOnEmail(r, t)
        /\ req[r].body.email # req[t].body.email
        /\ Created(r)
        /\ req[t].resp = Json(400, FALSE,
               <<"A record with this ", "email", " already exists.">>, NoData)

\* C30: when two deleteProject requests of the owner race on the same
\* conversation, the conversation and its children are deleted, exactly one
\* request reports success and the other is answered with 404, never with a
\* 500
DeletingOwn(r) ==
    /\ req[r].op = "deleteProject" /\ req[r].pc = "done"
    /\ \E p \in pre[r].projects : p.id = req[r].projectId /\ p.userId = req[r].user

RacingDeletes(r, t) ==
    /\ r # t /\ DeletingOwn(r) /\ DeletingOwn(t)
    /\ req[r].projectId = req[t].projectId

C30_RacingDeletesOneSucceeds ==
    \A r, t \in Reqs :
        RacingDeletes(r, t) =>
            /\ ~ProjectExists(req[r].projectId)
            /\ MessagesOf(messages, req[r].projectId) = <<>>
            /\ FilesOf(files, req[r].projectId) = <<>>
            /\ {req[r].resp.status, req[t].resp.status} = {200, 404}

C30_Witness ==
    \E r, t \in Reqs :
        /\ RacingDeletes(r, t)
        /\ req[r].resp.status = 200
        /\ req[t].project # NoProject
        /\ req[t].resp = Json(404, FALSE, <<"Record not found.">>, NoData)

====
